---------------------------- MODULE Spec2Model ----------------------------
(***************************************************************************)
(* Verification model of the GroupAssigner repository: the apportionment   *)
(* calculator of the GA assigner, the heuristic seeder, the hybrid genetic *)
(* optimizer and the evaluation primitives.                                *)
(*                                                                         *)
(* Participants are identified by their 1-based index in the program's     *)
(* roster (the source uses 0-based indices and fresh ULID identifiers;     *)
(* identifiers are unique and ordered by creation).                        *)
(***************************************************************************)
EXTENDS Naturals, Integers, Sequences, FiniteSets, TLC

VARIABLES
    program,        \* Program: [participants: Seq([name, position, lab]), sessions: Seq([group_num, min, max])]
    solution,       \* Dict[int, Groups]: sequence over sessions of sequences of groups of participant indices
    evPc,           \* evaluation run: "build" | "done"
    evResult,       \* results of the evaluation primitives on `solution`
    ap,             \* locals of one call of compute_position_targets
    hy,             \* locals of one call of GroupAssignerHybridGA.assign_groups
    twin,           \* a second call with the same program, parameters and random draws
    rp,             \* locals of one call of GroupAssignerHybridGA._repair_session
    cv,             \* one call of GetGroupsParamsConverter.convert_json_to_params
    hs,             \* one call of GroupAssignerHeuristic.assign_groups
    ga              \* one call of the pure genetic assigner

evalVars == <<program, solution, evPc, evResult>>

otherVars == <<rp, cv, hs, ga>>

vars == <<program, solution, evPc, evResult, ap, hy, twin, rp, cv, hs, ga>>

-----------------------------------------------------------------------------
(* Bounds *)

MaxEvalParticipants == 3
MaxEvalSessions == 3

-----------------------------------------------------------------------------
(* Generic helpers *)

Range(f) == {f[i] : i \in DOMAIN f}

Max2(a, b) == IF a >= b THEN a ELSE b

Min2(a, b) == IF a <= b THEN a ELSE b

RECURSIVE SumSeq(_)
SumSeq(s) == IF s = <<>> THEN 0 ELSE Head(s) + SumSeq(Tail(s))

RECURSIVE SumOver(_, _)
\* sum of f[x] for x in S (f a function whose domain contains S)
SumOver(S, f) ==
    IF S = {} THEN 0
    ELSE LET x == CHOOSE y \in S : TRUE IN f[x] + SumOver(S \ {x}, f)

RECURSIVE SortedSeq(_)
\* the ascending enumeration of a finite set of integers
SortedSeq(S) ==
    IF S = {} THEN <<>>
    ELSE LET m == CHOOSE x \in S : \A y \in S : x <= y IN <<m>> \o SortedSeq(S \ {m})

RECURSIVE TupleOf(_, _)
TupleOf(f, n) == IF n = 0 THEN <<>> ELSE Append(TupleOf(f, n - 1), f[n])

\* the sequence <<f[1], ..., f[n]>> of a function on 1..n, element by element
Tuple(f) == TupleOf(f, Cardinality(DOMAIN f))

RECURSIVE Flatten(_)
Flatten(ss) == IF ss = <<>> THEN <<>> ELSE Head(ss) \o Flatten(Tail(ss))

PositionType == <<"Faculty", "Doctoral", "Master", "Bachelor">>

-----------------------------------------------------------------------------
(* IEEE-754 binary64 arithmetic on the non-negative values the evaluation  *)
(* primitives produce.  A value is [ip, fr]: integer part and the bits of  *)
(* the binary fraction, at most 53 significant bits in total.              *)

MantissaBits == 53

RECURSIVE BitLen(_)
BitLen(n) == IF n = 0 THEN 0 ELSE 1 + BitLen(n \div 2)

RECURSIVE LeadZeros(_, _)
\* number of zero bits before the first one bit of the fraction r/b, 0 < r < b
LeadZeros(r, b) == IF 2 * r >= b THEN 0 ELSE 1 + LeadZeros(2 * r, b)

RECURSIVE FracBits(_, _, _)
\* the first n bits of the binary expansion of r/b, 0 <= r < b
FracBits(r, b, n) ==
    IF n = 0 THEN <<>>
    ELSE <<(2 * r) \div b>> \o FracBits((2 * r) % b, b, n - 1)

RECURSIVE RemAfter(_, _, _)
\* the remainder left after n bits of the long division r/b
RemAfter(r, b, n) == IF n = 0 THEN r ELSE RemAfter((2 * r) % b, b, n - 1)

RECURSIVE IncBits(_)
\* add one unit in the last place; carry is 1 when the fraction overflows
IncBits(bits) ==
    IF bits = <<>> THEN [carry |-> 1, bits |-> <<>>]
    ELSE LET n == Len(bits)
             last == bits[n]
             front == SubSeq(bits, 1, n - 1)
         IN IF last = 0 THEN [carry |-> 0, bits |-> Append(front, 1)]
            ELSE LET r == IncBits(front)
                 IN [carry |-> r.carry, bits |-> Append(r.bits, 0)]

\* a / b of two Python ints: the correctly rounded (nearest, ties to even) double
FloatDiv(a, b) ==
    LET ip == a \div b
        r == a % b
    IN IF r = 0 THEN [ip |-> ip, fr |-> <<>>]
       ELSE LET n == IF ip > 0 THEN MantissaBits - BitLen(ip)
                     ELSE LeadZeros(r, b) + MantissaBits
                bits == FracBits(r, b, n)
                rem == RemAfter(r, b, n)
                up == 2 * rem > b \/ (2 * rem = b /\ bits[n] = 1)
                inc == IncBits(bits)
            IN IF up THEN [ip |-> ip + inc.carry, fr |-> inc.bits]
               ELSE [ip |-> ip, fr |-> bits]

FloatZero == [ip |-> 0, fr |-> <<>>]

\* max(0.0, x - k) for a double x >= 0 and an int k >= 0: the difference is
\* exact when x >= k (its bits are bits of x) and negative otherwise
FloatSubIntClamped(x, k) ==
    IF x.ip >= k THEN [ip |-> x.ip - k, fr |-> x.fr] ELSE FloatZero

FloatBit(x, i) == IF i <= Len(x.fr) THEN x.fr[i] ELSE 0

\* x < y on doubles
FloatLess(x, y) ==
    \/ x.ip < y.ip
    \/ /\ x.ip = y.ip
       /\ \E i \in 1..Max2(Len(x.fr), Len(y.fr)) :
            /\ FloatBit(x, i) < FloatBit(y, i)
            /\ \A j \in 1..(i - 1) : FloatBit(x, j) = FloatBit(y, j)

FloatIsZero(x) == x.ip = 0 /\ \A i \in 1..Len(x.fr) : x.fr[i] = 0

-----------------------------------------------------------------------------
(* Evaluation primitives (domain_layer/services/evaluation_algorithm.py)   *)

\* the participant identifiers of a Solution in order of first appearance
\* (the insertion order of the dictionaries keyed by participant id)
RECURSIVE Dedupe(_)
Dedupe(s) ==
    IF s = <<>> THEN <<>>
    ELSE LET front == Dedupe(SubSeq(s, 1, Len(s) - 1))
             x == s[Len(s)]
         IN IF x \in Range(front) THEN front ELSE Append(front, x)

RECURSIVE FlattenSessions(_)
FlattenSessions(groups_dict) ==
    IF groups_dict = <<>> THEN <<>>
    ELSE Flatten(Head(groups_dict)) \o FlattenSessions(Tail(groups_dict))

appearance_order(groups_dict) == Dedupe(FlattenSessions(groups_dict))

all_participants(groups_dict) == Range(FlattenSessions(groups_dict))

\* every (session, group, i, j) the nested loops of the primitives visit
GroupSlots(groups_dict) ==
    UNION {UNION {{<<s, g, i, j>> : i \in DOMAIN groups_dict[s][g], j \in DOMAIN groups_dict[s][g]}
                  : g \in DOMAIN groups_dict[s]}
           : s \in DOMAIN groups_dict}

SortedPair(a, b) == IF a <= b THEN <<a, b>> ELSE <<b, a>>

\* pair_together[(a, b)]: one increment per (group, i < j) with sorted ids
pair_together(groups_dict) ==
    LET occ == {o \in GroupSlots(groups_dict) : o[3] < o[4]}
        key(o) == SortedPair(groups_dict[o[1]][o[2]][o[3]], groups_dict[o[1]][o[2]][o[4]])
    IN [k \in {key(o) : o \in occ} |-> Cardinality({o \in occ : key(o) = k})]

\* the accumulation with the credit to the second member of the pair left out
per_person_repeat_sum_first_only(groups_dict) ==
    LET pt == pair_together(groups_dict)
        add(pid) == [k \in DOMAIN pt |->
                        IF pt[k] > 1 THEN (IF k[1] = pid THEN pt[k] - 1 ELSE 0) ELSE 0]
    IN [pid \in all_participants(groups_dict) |-> SumOver(DOMAIN pt, add(pid))]

\* per_person_repeat_sum: (cnt - 1) credited to both members of a repeated pair
per_person_repeat_sum(groups_dict) ==
    LET pt == pair_together(groups_dict)
        add(pid) == [k \in DOMAIN pt |->
                        IF pt[k] > 1
                        THEN (IF k[1] = pid THEN pt[k] - 1 ELSE 0)
                             + (IF k[2] = pid THEN pt[k] - 1 ELSE 0)
                        ELSE 0]
    IN [pid \in all_participants(groups_dict) |-> SumOver(DOMAIN pt, add(pid))]

\* AverageRepeatEvaluationAlgorithm.evaluate
evaluate(groups_dict) ==
    LET pp == per_person_repeat_sum(groups_dict)
        total == SumOver(DOMAIN pp, pp)
        persons == Cardinality(DOMAIN pp)
    IN IF persons = 0
       THEN [avg |-> FloatZero, total |-> 0, persons |-> 0]
       ELSE [avg |-> FloatDiv(total, persons), total |-> total, persons |-> persons]

comb2(k) == (k * (k - 1)) \div 2

RECURSIVE Q_total(_, _)
Q_total(sessions, N) ==
    IF sessions = <<>> THEN 0
    ELSE LET G == Head(sessions).group_num
             q == N \div G
             r == N % G
         IN (IF G <= 0 THEN 0 ELSE (G - r) * comb2(q) + r * comb2(q + 1))
            + Q_total(Tail(sessions), N)

\* TheoreticalMinCalculator.calculate_theoretical_min_avg_repeat
calculate_theoretical_min_avg_repeat(prog) ==
    LET N == Len(prog.participants)
    IN IF N <= 1 THEN FloatZero
       ELSE FloatSubIntClamped(FloatDiv(2 * Q_total(prog.sessions, N), N), N - 1)

\* the statistics with the `if i == j: continue` test left out
partner_statistics_by_id_with_self(groups_dict) ==
    LET slots == GroupSlots(groups_dict)
        who(o) == groups_dict[o[1]][o[2]][o[3]]
        mate(o) == groups_dict[o[1]][o[2]][o[4]]
        ids == all_participants(groups_dict)
        mate_count(pid, m) == Cardinality({o \in slots : who(o) = pid /\ mate(o) = m})
    IN [pid \in ids |->
          [distinct_partners |-> Cardinality({mate(o) : o \in {x \in slots : who(x) = pid}}),
           total_partners |-> Cardinality({o \in slots : who(o) = pid}),
           duplicate_partners |-> Cardinality({m \in ids : mate_count(pid, m) > 1})]]

\* DistinctPartnersCalculator.calculate_partner_statistics, before the
\* result is keyed by display name
partner_statistics_by_id(groups_dict) ==
    LET slots == {o \in GroupSlots(groups_dict) : o[3] # o[4]}
        who(o) == groups_dict[o[1]][o[2]][o[3]]
        mate(o) == groups_dict[o[1]][o[2]][o[4]]
        ids == all_participants(groups_dict)
        mate_count(pid, m) == Cardinality({o \in slots : who(o) = pid /\ mate(o) = m})
    IN [pid \in ids |->
          [distinct_partners |-> Cardinality({mate(o) : o \in {x \in slots : who(x) = pid}}),
           total_partners |-> Cardinality({o \in slots : who(o) = pid}),
           duplicate_partners |-> Cardinality({m \in ids : mate_count(pid, m) > 1})]]

name_of(prog, pid) == prog.participants[pid].name

\* the result dictionary: one entry per display name, written in insertion
\* order of the participant ids, so a later id with the same name overwrites
calculate_partner_statistics(prog, groups_dict) ==
    LET order == appearance_order(groups_dict)
        by_id == partner_statistics_by_id(groups_dict)
        last(nm) == CHOOSE i \in DOMAIN order :
                        /\ name_of(prog, order[i]) = nm
                        /\ \A j \in DOMAIN order : name_of(prog, order[j]) = nm => j <= i
    IN [nm \in {name_of(prog, pid) : pid \in Range(order)} |-> by_id[order[last(nm)]]]

\* DistinctPartnersCalculator.calculate_distinct_partners: the mates of every
\* participant id, then one entry per display name written in insertion
\* order of the ids, so a later id with the same name overwrites
calculate_distinct_partners(prog, groups_dict) ==
    LET slots == {o \in GroupSlots(groups_dict) : o[3] # o[4]}
        order == appearance_order(groups_dict)
        others(pid) == {groups_dict[o[1]][o[2]][o[4]] :
                           o \in {x \in slots : groups_dict[x[1]][x[2]][x[3]] = pid}}
        last(nm) == CHOOSE i \in DOMAIN order :
                        /\ name_of(prog, order[i]) = nm
                        /\ \A j \in DOMAIN order : name_of(prog, order[j]) = nm => j <= i
    IN [nm \in {name_of(prog, pid) : pid \in Range(order)} |->
          Cardinality(others(order[last(nm)]))]

-----------------------------------------------------------------------------
(* Evaluation run: a Program is fixed, a Solution is built session by      *)
(* session (each session a partition of the roster into exactly group_num  *)
(* groups) and the evaluation primitives are applied to it.                *)

NoResult == [done |-> FALSE]

\* rosters of the evaluation run: display names are distinct, or the second
\* participant carries the first one's display name
EvalRoster(N, dup) ==
    [i \in 1..N |-> [name |-> IF dup /\ i = 2 THEN 1 ELSE i,
                     position |-> "Bachelor",
                     lab |-> <<i>>]]

EvalSessions(N) ==
    UNION {[1..k -> {[group_num |-> G, min |-> 1, max |-> N] : G \in 1..N}]
           : k \in 1..MaxEvalSessions}

EvalPrograms ==
    UNION {{[participants |-> EvalRoster(N, dup), sessions |-> ss]
            : dup \in {FALSE, N >= 2}, ss \in EvalSessions(N)}
           : N \in 1..MaxEvalParticipants}

\* the partitions of 1..N into exactly G non-empty groups, groups numbered
\* in order of their smallest member and members listed in roster order
SessionPartitions(N, G) ==
    LET growth(f) == \A i \in 1..N :
                        f[i] <= 1 + (IF i = 1 THEN 0
                                     ELSE CHOOSE m \in 1..G :
                                            /\ \E j \in 1..(i - 1) : f[j] = m
                                            /\ \A j \in 1..(i - 1) : f[j] <= m)
        labels == {f \in [1..N -> 1..G] : growth(f) /\ \A g \in 1..G : \E i \in 1..N : f[i] = g}
    IN {[g \in 1..G |-> SortedSeq({i \in 1..N : f[i] = g})] : f \in labels}

EvInit ==
    /\ program \in EvalPrograms
    /\ solution = <<>>
    /\ evPc = "build"
    /\ evResult = NoResult
    /\ ap = [pc |-> "idle"]
    /\ hy = [pc |-> "idle"]
    /\ twin = [pc |-> "idle"]
    /\ rp = [pc |-> "idle"]
    /\ cv = [pc |-> "idle"]
    /\ hs = [pc |-> "idle"]
    /\ ga = [pc |-> "idle"]

\* one more session of the Solution
EvAssignSession ==
    /\ evPc = "build"
    /\ Len(solution) < Len(program.sessions)
    /\ \E groups \in SessionPartitions(Len(program.participants),
                                       program.sessions[Len(solution) + 1].group_num) :
          solution' = Append(solution, groups)
    /\ UNCHANGED <<program, evPc, evResult, ap, hy, twin, otherVars>>

\* GetGroupsUseCase.execute's evaluation of the Solution, the theoretical
\* minimum of the program and the partner statistics of the reports
EvEvaluate ==
    /\ evPc = "build"
    /\ Len(solution) = Len(program.sessions)
    /\ evResult' = [done |-> TRUE,
                    evaluation |-> evaluate(solution),
                    theoretical_min |-> calculate_theoretical_min_avg_repeat(program),
                    partner_statistics |-> calculate_partner_statistics(program, solution),
                    distinct_partners |-> calculate_distinct_partners(program, solution)]
    /\ evPc' = "done"
    /\ UNCHANGED <<program, solution, ap, hy, twin, otherVars>>

EvNext == EvAssignSession \/ EvEvaluate

EvalSpec == EvInit /\ [][EvNext]_vars

-----------------------------------------------------------------------------
(* Claims about the evaluation primitives (checked under EvalSpec)         *)

\* pair[{a, b}]: the number of sessions in which a and b share a group
PairSessions(a, b) ==
    Cardinality({s \in DOMAIN solution :
                    \E g \in DOMAIN solution[s] : {a, b} \subseteq Range(solution[s][g])})

SolutionParticipants == UNION {UNION {Range(solution[s][g]) : g \in DOMAIN solution[s]}
                               : s \in DOMAIN solution}

\* the sum over p and over q # p of max(pair[{p, q}] - 1, 0)
ClaimedRepeatTotal ==
    LET P == SolutionParticipants
        term == [pq \in P \X P |->
                    IF pq[1] = pq[2] THEN 0 ELSE Max2(PairSessions(pq[1], pq[2]) - 1, 0)]
    IN SumOver(P \X P, term)

\* C6: for every Solution, the evaluation score (average repeat per person)
\* is at least the theoretical minimum average repeat of the program.
C6_EvaluateAtLeastTheoreticalMin ==
    evResult.done => ~FloatLess(evResult.evaluation.avg, evResult.theoretical_min)

\* C7: evaluate returns the sum over participants p and q # p of
\* max(pair[{p,q}] - 1, 0) divided by the number of participants appearing in
\* the Solution, and 0 when every pair co-occurs at most once.
C7_EvaluateIsAverageRepeat ==
    evResult.done =>
        /\ evResult.evaluation.total = ClaimedRepeatTotal
        /\ evResult.evaluation.persons = Cardinality(SolutionParticipants)
        /\ evResult.evaluation.avg = FloatDiv(ClaimedRepeatTotal, Cardinality(SolutionParticipants))
        /\ (\A a, b \in SolutionParticipants : a # b => PairSessions(a, b) <= 1)
              => FloatIsZero(evResult.evaluation.avg)

\* a Solution in which one pair meets three times and another pair only once
C7_Witness ==
    /\ evResult.done
    /\ \E a, b \in SolutionParticipants : a # b /\ PairSessions(a, b) = 3
    /\ \E a, b \in SolutionParticipants : a # b /\ PairSessions(a, b) = 1
    /\ ~FloatIsZero(evResult.evaluation.avg)

StatisticsOf(p) == evResult.partner_statistics[name_of(program, p)]

\* C8 as stated: distinct_partners(p) + duplicate_partners(p) <= |P| - 1 for
\* every participant p of every Solution.
C8_DistinctPlusDuplicateBounded ==
    evResult.done =>
        \A p \in SolutionParticipants :
            StatisticsOf(p).distinct_partners + StatisticsOf(p).duplicate_partners
                <= Cardinality(SolutionParticipants) - 1

\* C8 amended: for every participant p, duplicate_partners(p) <=
\* distinct_partners(p) <= |P| - 1.
C8_DuplicateWithinDistinct ==
    evResult.done =>
        \A p \in SolutionParticipants :
            /\ StatisticsOf(p).duplicate_partners <= StatisticsOf(p).distinct_partners
            /\ StatisticsOf(p).distinct_partners <= Cardinality(SolutionParticipants) - 1

\* a participant who met everybody else and met somebody twice
C8_Witness ==
    /\ evResult.done
    /\ \E p \in SolutionParticipants :
          /\ StatisticsOf(p).distinct_partners = Cardinality(SolutionParticipants) - 1
          /\ StatisticsOf(p).duplicate_partners >= 1
          /\ Cardinality(SolutionParticipants) >= 3

-----------------------------------------------------------------------------
(* Apportionment calculator of the GA assigner                              *)
(* (infrastructure_layer/domain_implementations/group_assinger_ga.py)       *)

MaxApParticipants == 4
MaxApSize == 2

EqualSizesGuard == 100
RemainderGuard == 10000

Positions == 1..4      \* indices into PositionType, in enumeration order

position_index(name) == CHOOSE p \in Positions : PositionType[p] = name

\* total_by_pos of a roster
total_by_pos(participants) ==
    [p \in Positions |->
        Cardinality({i \in DOMAIN participants : participants[i].position = PositionType[p]})]

CeilDiv(a, b) == (a + b - 1) \div b

\* q + 1 for the first r groups and q for the rest, (q, r) = divmod(N, G)
divmod_sizes(N, G) == [i \in 1..G |-> IF i <= N % G THEN N \div G + 1 ELSE N \div G]

RECURSIVE equal_group_sizes_loop(_, _, _, _, _)
equal_group_sizes_loop(N, min_sz, max_sz, G, guard) ==
    LET sizes == divmod_sizes(N, G)
    IN IF (\E i \in 1..G : sizes[i] > max_sz \/ sizes[i] < min_sz) /\ guard < EqualSizesGuard
       THEN equal_group_sizes_loop(N, min_sz, max_sz, G + 1, guard + 1)
       ELSE sizes

\* equal_group_sizes: G = ceil(N / 4), raised until the sizes fit [min, max]
equal_group_sizes(N, session) ==
    equal_group_sizes_loop(N, session.min, session.max, Max2(1, CeilDiv(N, 4)), 0)

\* sorted(range(G), key=cell_frac[gi][pos], reverse=True) with the ties in the
\* opposite (descending index) order
RECURSIVE frac_order_ties_reversed(_, _)
frac_order_ties_reversed(frac, S) ==
    IF S = {} THEN <<>>
    ELSE LET g == CHOOSE x \in S :
                    \A y \in S : FloatLess(frac[y], frac[x])
                                 \/ (~FloatLess(frac[x], frac[y]) /\ x >= y)
         IN <<g>> \o frac_order_ties_reversed(frac, S \ {g})

\* sorted(range(G), key=cell_frac[gi][pos], reverse=True): descending
\* fraction (compared as doubles); the sort is stable, so groups with equal
\* fractions stay in index order
RECURSIVE frac_order(_, _)
frac_order(frac, S) ==
    IF S = {} THEN <<>>
    ELSE LET g == CHOOSE x \in S :
                    \A y \in S : FloatLess(frac[y], frac[x])
                                 \/ (~FloatLess(frac[x], frac[y]) /\ x <= y)
         IN <<g>> \o frac_order(frac, S \ {g})

\* the capacity test with the row bound forgotten
has_capacity_unbounded(row_sum, group_sizes, gi) == TRUE

\* row_sum[gi] < group_sizes[gi]
has_capacity(row_sum, group_sizes, gi) == row_sum[gi] < group_sizes[gi]

\* the floor pass: share = (T * gsize) / max(1, N) as a double,
\* cell_base = int(share), cell_frac = share - int(share)
ap_floor(totals, group_sizes) ==
    LET G == Len(group_sizes)
        N == SumSeq(group_sizes)
        D == Max2(1, N)
        share == [gi \in 1..G |-> [p \in Positions |-> FloatDiv(totals[p] * group_sizes[gi], D)]]
        base == [gi \in 1..G |-> [p \in Positions |-> share[gi][p].ip]]
        frac == [gi \in 1..G |-> [p \in Positions |-> FloatSubIntClamped(share[gi][p], base[gi][p])]]
    IN [pc |-> "position",
        total_by_pos |-> totals,
        group_sizes |-> group_sizes,
        cell_base |-> base,
        cell_frac |-> frac,
        row_sum |-> [gi \in 1..G |-> SumOver(Positions, base[gi])],
        rem_pos |-> [p \in Positions |-> totals[p] - SumSeq([gi \in 1..G |-> base[gi][p]])],
        pos |-> 1,
        order |-> <<>>,
        idx |-> 0,
        guard |-> 0]

\* `for pos in PositionType`: skip a position without remainder, else sort
\* the groups by fraction and enter the distribution loop
ap_position(st) ==
    IF st.pos > 4 THEN [st EXCEPT !.pc = "done"]
    ELSE IF st.rem_pos[st.pos] <= 0 THEN [st EXCEPT !.pos = @ + 1]
    ELSE [st EXCEPT !.pc = "distribute",
                    !.order = frac_order([gi \in DOMAIN st.group_sizes |-> st.cell_frac[gi][st.pos]],
                                         DOMAIN st.group_sizes),
                    !.idx = 0,
                    !.guard = 0]

\* one iteration of `while rem_pos[pos] > 0 and guard < 10000`
ap_distribute(st) ==
    IF ~(st.rem_pos[st.pos] > 0 /\ st.guard < RemainderGuard)
    THEN [st EXCEPT !.pc = "position", !.pos = @ + 1]
    ELSE LET gi == st.order[st.idx + 1]
             G == Len(st.group_sizes)
             p == st.pos
         IN IF has_capacity(st.row_sum, st.group_sizes, gi)
            THEN [st EXCEPT !.cell_base[gi][p] = @ + 1,
                            !.row_sum[gi] = @ + 1,
                            !.rem_pos[p] = @ - 1,
                            !.idx = (@ + 1) % G,
                            !.guard = @ + 1]
            ELSE [st EXCEPT !.idx = (@ + 1) % G, !.guard = @ + 1]

RECURSIVE ap_run(_)
ap_run(st) ==
    IF st.pc = "done" THEN st
    ELSE IF st.pc = "position" THEN ap_run(ap_position(st))
    ELSE ap_run(ap_distribute(st))

\* compute_position_targets(session, group_sizes)
compute_position_targets(participants, group_sizes) ==
    ap_run(ap_floor(total_by_pos(participants), group_sizes)).cell_base

\* rosters by position counts (the apportionment reads the counts only)
RosterOfCounts(c) ==
    [i \in 1..(c[1] + c[2] + c[3] + c[4]) |->
        [name |-> i,
         position |-> PositionType[IF i <= c[1] THEN 1
                                   ELSE IF i <= c[1] + c[2] THEN 2
                                   ELSE IF i <= c[1] + c[2] + c[3] THEN 3 ELSE 4],
         lab |-> <<i>>]]

ApPrograms ==
    {[participants |-> RosterOfCounts(c),
      sessions |-> <<[group_num |-> 1, min |-> mn, max |-> mx]>>]
     : c \in {x \in [Positions -> 0..MaxApParticipants] :
                 x[1] + x[2] + x[3] + x[4] \in 1..MaxApParticipants},
       mn \in 1..MaxApSize, mx \in 1..MaxApSize}

ApInit ==
    /\ program \in ApPrograms
    /\ solution = <<>>
    /\ evPc = "idle"
    /\ evResult = NoResult
    /\ ap = [pc |-> "idle"]
    /\ hy = [pc |-> "idle"]
    /\ twin = [pc |-> "idle"]
    /\ rp = [pc |-> "idle"]
    /\ cv = [pc |-> "idle"]
    /\ hs = [pc |-> "idle"]
    /\ ga = [pc |-> "idle"]

\* create_individual: targets = compute_position_targets(session, equal_group_sizes(session))
ApCall ==
    /\ ap.pc = "idle"
    /\ ap' = ap_floor(total_by_pos(program.participants),
                      equal_group_sizes(Len(program.participants), program.sessions[1]))
    /\ UNCHANGED <<evalVars, hy, twin, otherVars>>

ApPosition ==
    /\ ap.pc = "position"
    /\ ap' = ap_position(ap)
    /\ UNCHANGED <<evalVars, hy, twin, otherVars>>

ApDistribute ==
    /\ ap.pc = "distribute"
    /\ ap' = ap_distribute(ap)
    /\ UNCHANGED <<evalVars, hy, twin, otherVars>>

ApNext == ApCall \/ ApPosition \/ ApDistribute

ApSpec == ApInit /\ [][ApNext]_vars

-----------------------------------------------------------------------------
(* Apportionment claims *)

ApGroups == DOMAIN ap.group_sizes

\* remainder units of position p handed to group gi so far (D = max(1, N))
ApGiven(gi, p, D) ==
    ap.cell_base[gi][p] - (ap.total_by_pos[p] * ap.group_sizes[gi]) \div D

\* the exact fractional shares of groups gi and gj for position p are equal
ApEqualFraction(gi, gj, p, D) ==
    (ap.total_by_pos[p] * ap.group_sizes[gi]) % D = (ap.total_by_pos[p] * ap.group_sizes[gj]) % D

\* group gj is ahead of the lower group gi of equal fraction for position p
ApAhead(gi, gj, p, D) ==
    /\ gi < gj
    /\ ApGiven(gj, p, D) > ApGiven(gi, p, D)
    /\ ApEqualFraction(gi, gj, p, D)

\* C4: when sum(T) = sum(s), the matrix returned by compute_position_targets
\* has non-negative integer entries, row sums equal to the group sizes and
\* column sums equal to the position totals.
C4_ApportionmentSums ==
    (ap.pc = "done" /\ SumOver(Positions, ap.total_by_pos) = SumSeq(ap.group_sizes)) =>
        /\ \A gi \in ApGroups : \A p \in Positions : ap.cell_base[gi][p] \in Nat
        /\ \A gi \in ApGroups : SumOver(Positions, ap.cell_base[gi]) = ap.group_sizes[gi]
        /\ \A p \in Positions :
             SumSeq([gi \in ApGroups |-> ap.cell_base[gi][p]]) = ap.total_by_pos[p]

\* a finished call with several groups in which a remainder unit skipped a
\* group that was already full
C4_Witness ==
    /\ ap.pc = "done"
    /\ Len(ap.group_sizes) >= 2
    /\ SumOver(Positions, ap.total_by_pos) = SumSeq(ap.group_sizes)
    /\ LET D == Max2(1, SumSeq(ap.group_sizes))
       IN \E p \in Positions : \E gi, gj \in ApGroups : ApAhead(gi, gj, p, D)

\* C5: the apportionment is a function of its inputs (running it again on the
\* same totals and sizes gives the matrix of the finished call), and among
\* groups with equal fractional share for a position a remainder unit goes
\* to the lower index first: a higher index is only ahead of a lower one
\* that is full.
C5_ApportionmentTieBreak ==
    /\ ap.pc = "done" =>
         ap.cell_base = ap_run(ap_floor(ap.total_by_pos, ap.group_sizes)).cell_base
    /\ ap.pc \in {"position", "distribute", "done"} =>
         LET D == Max2(1, SumSeq(ap.group_sizes))
         IN \A p \in Positions : \A gj \in ApGroups :
               ApGiven(gj, p, D) > 0 =>
                  \A gi \in 1..(gj - 1) :
                     ApAhead(gi, gj, p, D) => ap.row_sum[gi] = ap.group_sizes[gi]

\* a distribution under way in which, of two groups with equal fraction and
\* free capacity, the lower index holds the remainder unit
C5_Witness ==
    /\ ap.pc = "distribute"
    /\ LET D == Max2(1, SumSeq(ap.group_sizes))
       IN \E p \in Positions : \E gi, gj \in ApGroups :
            /\ gi < gj
            /\ ApEqualFraction(gi, gj, p, D)
            /\ ApGiven(gi, p, D) = 1
            /\ ApGiven(gj, p, D) = 0
            /\ ap.row_sum[gi] < ap.group_sizes[gi]
            /\ ap.row_sum[gj] < ap.group_sizes[gj]

-----------------------------------------------------------------------------
(* Heuristic assigner                                                       *)
(* (infrastructure_layer/domain_implementations/group_assigner_heuristic.py)*)
(* Sessions share the program's roster; no session carries input           *)
(* position_targets (the converter never passes them).  lab_conflicts is   *)
(* only ever written, so it is not kept.                                   *)

Faculty == 1
Doctoral == 2

Abs(x) == IF x < 0 THEN -x ELSE x

RemoveAt(s, k) == SubSeq(s, 1, k - 1) \o SubSeq(s, k + 1, Len(s))

\* all orderings of a finite set
Perms(S) == {f \in [1..Cardinality(S) -> S] : \A i, j \in DOMAIN f : f[i] = f[j] => i = j}

position_of(prog, i) == position_index(prog.participants[i].position)

\* participant indices of one position, in roster order
position_members(prog, p) ==
    SortedSeq({i \in DOMAIN prog.participants : position_of(prog, i) = p})

\* LaboratoryName.__eq__(a, b): every laboratory of a is one of b's
lab_eq(prog, a, b) ==
    \A k \in DOMAIN prog.participants[a].lab :
        \E j \in DOMAIN prog.participants[b].lab :
            prog.participants[a].lab[k] = prog.participants[b].lab[j]

count_position(prog, group, p) ==
    Cardinality({k \in DOMAIN group : position_of(prog, group[k]) = p})

\* _compute_group_sizes
compute_group_sizes(total_participants, group_num) ==
    divmod_sizes(total_participants, group_num)

\* step() of the zigzag pointer: dwell once on an end, then turn round
zigzag_step(G, st) ==
    IF st.dirn = 1
    THEN IF st.idx = G THEN [st EXCEPT !.dirn = -1] ELSE [st EXCEPT !.idx = @ + 1]
    ELSE IF st.idx = 1 THEN [st EXCEPT !.dirn = 1] ELSE [st EXCEPT !.idx = @ - 1]

\* `while guard < G * 2`: walk to the next group with free load and book one
RECURSIVE zigzag_place(_, _, _, _, _)
zigzag_place(G, group_sizes, st, p, guard) ==
    IF guard >= G * 2 THEN st
    ELSE IF st.loads[st.idx] < group_sizes[st.idx]
         THEN zigzag_step(G, [st EXCEPT !.targets[st.idx][p] = @ + 1,
                                        !.loads[st.idx] = @ + 1])
         ELSE zigzag_place(G, group_sizes, zigzag_step(G, st), p, guard + 1)

RECURSIVE zigzag_fill(_, _, _, _, _)
zigzag_fill(G, group_sizes, st, p, count) ==
    IF count = 0 THEN st
    ELSE zigzag_fill(G, group_sizes, zigzag_place(G, group_sizes, st, p, 0), p, count - 1)

RECURSIVE zigzag_positions(_, _, _, _, _)
zigzag_positions(G, group_sizes, st, p, counts) ==
    IF p > 4 THEN st
    ELSE zigzag_positions(G, group_sizes, zigzag_fill(G, group_sizes, st, p, counts[p]),
                          p + 1, counts)

\* the zigzag pointer started on the last group, heading left
compute_position_targets_zigzag_from_last(G, group_sizes, counts) ==
    zigzag_positions(G, group_sizes,
                     [idx |-> G, dirn |-> -1,
                      loads |-> Tuple([g \in 1..G |-> 0]),
                      targets |-> Tuple([g \in 1..G |-> <<0, 0, 0, 0>>])],
                     1, counts).targets

\* _compute_position_targets_zigzag
compute_position_targets_zigzag(G, group_sizes, counts) ==
    zigzag_positions(G, group_sizes,
                     [idx |-> 1, dirn |-> 1,
                      loads |-> Tuple([g \in 1..G |-> 0]),
                      targets |-> Tuple([g \in 1..G |-> <<0, 0, 0, 0>>])],
                     1, counts).targets

\* _is_group_suitable_for_zigzag_constraints
is_group_suitable_for_zigzag_constraints(prog, cand, gi, position_targets, group) ==
    count_position(prog, group, position_of(prog, cand))
        < position_targets[gi][position_of(prog, cand)]

\* _is_group_suitable_for_participant
is_group_suitable_for_participant(prog, cand, group, used_pairs) ==
    /\ position_of(prog, cand) = Doctoral => count_position(prog, group, Doctoral) < 1
    /\ position_of(prog, cand) = Faculty => count_position(prog, group, Faculty) < 1
    /\ \A k \in DOMAIN group :
         /\ {cand, group[k]} \notin used_pairs
         /\ ~lab_eq(prog, cand, group[k])

\* a score whose balance term is left out below min_size and from max_size on
calculate_group_score_exclusive(prog, cand, group, used_pairs, min_size, max_size) ==
    1000 * Cardinality({k \in DOMAIN group : {cand, group[k]} \in used_pairs})
      + 500 * Cardinality({k \in DOMAIN group : lab_eq(prog, cand, group[k])})
      + (IF Len(group) < min_size THEN -100
         ELSE IF Len(group) >= max_size THEN 1000
         ELSE 10 * Abs(2 * Len(group) - (min_size + max_size)))

\* _calculate_group_score with both avoid flags set; the size term is
\* 20 * |size - (min + max) / 2| = 10 * |2 size - (min + max)|
calculate_group_score(prog, cand, group, used_pairs, min_size, max_size) ==
    1000 * Cardinality({k \in DOMAIN group : {cand, group[k]} \in used_pairs})
      + 500 * Cardinality({k \in DOMAIN group : lab_eq(prog, cand, group[k])})
      + (IF Len(group) < min_size THEN -100
         ELSE IF Len(group) >= max_size THEN 1000 ELSE 0)
      + 10 * Abs(2 * Len(group) - (min_size + max_size))

\* _update_conflicts: the pairs of the new member with the others of its group
update_conflicts(cand, group, used_pairs) ==
    used_pairs \cup {{cand, group[k]} : k \in {j \in DOMAIN group : group[j] # cand}}

\* sorted(range(len(groups)), key=len): ascending size, stable
RECURSIVE order_by_size(_, _)
order_by_size(groups, S) ==
    IF S = {} THEN <<>>
    ELSE LET g == CHOOSE x \in S :
                    \A y \in S : Len(groups[x]) < Len(groups[y])
                                 \/ (Len(groups[x]) = Len(groups[y]) /\ x <= y)
         IN <<g>> \o order_by_size(groups, S \ {g})

\* a candidate scan that filters no position
best_candidate_unfiltered(prog, pool, group, p, used_pairs, min_size, max_size) ==
    IF Len(group) >= max_size THEN 0
    ELSE LET sc(k) == calculate_group_score(prog, pool[k], group, used_pairs,
                                            min_size, max_size)
         IN IF pool = <<>> THEN 0
            ELSE CHOOSE k \in DOMAIN pool :
                    \A j \in DOMAIN pool : sc(k) < sc(j) \/ (sc(k) = sc(j) /\ k <= j)

\* the candidate scan of _assign_by_targets: index in the pool of the first
\* candidate of least score, 0 when the group is full or nobody qualifies
\* (only Doctoral candidates are filtered by suitability)
best_candidate(prog, pool, group, p, used_pairs, min_size, max_size) ==
    IF Len(group) >= max_size THEN 0
    ELSE LET ok == {k \in DOMAIN pool :
                      p = Doctoral =>
                        is_group_suitable_for_participant(prog, pool[k], group, used_pairs)}
             sc(k) == calculate_group_score(prog, pool[k], group, used_pairs,
                                            min_size, max_size)
         IN IF ok = {} THEN 0
            ELSE CHOOSE k \in ok : \A j \in ok : sc(k) < sc(j) \/ (sc(k) = sc(j) /\ k <= j)

\* `while need > 0 and pool` for one group and one position
RECURSIVE fill_need(_, _, _, _, _, _, _)
fill_need(prog, st, gi, p, need, min_size, max_size) ==
    IF need <= 0 \/ st.pools[p] = <<>> THEN st
    ELSE LET k == best_candidate(prog, st.pools[p], st.groups[gi], p, st.used_pairs,
                                 min_size, max_size)
         IN IF k = 0 THEN st
            ELSE LET cand == st.pools[p][k]
                     grp == Append(st.groups[gi], cand)
                 IN fill_need(prog,
                              [groups |-> [st.groups EXCEPT ![gi] = grp],
                               pools |-> [st.pools EXCEPT ![p] = RemoveAt(@, k)],
                               used_pairs |-> update_conflicts(cand, grp, st.used_pairs)],
                              gi, p, need - 1, min_size, max_size)

RECURSIVE fill_groups(_, _, _, _, _, _, _)
fill_groups(prog, st, order, p, position_targets, min_size, max_size) ==
    IF order = <<>> THEN st
    ELSE fill_groups(prog,
                     fill_need(prog, st, Head(order), p, position_targets[Head(order)][p],
                               min_size, max_size),
                     Tail(order), p, position_targets, min_size, max_size)

\* the target phase: positions in enumeration order, groups smallest first
RECURSIVE fill_positions(_, _, _, _, _, _)
fill_positions(prog, st, p, position_targets, min_size, max_size) ==
    IF p > 4 THEN st
    ELSE fill_positions(prog,
                        fill_groups(prog, st, order_by_size(st.groups, DOMAIN st.groups),
                                    p, position_targets, min_size, max_size),
                        p + 1, position_targets, min_size, max_size)

\* _find_best_group_for_remaining_participant (score taken with min_size 0);
\* 0 stands for None
find_best_group_for_remaining_participant(prog, cand, groups, position_targets, used_pairs, max_size) ==
    LET ok == {g \in DOMAIN groups :
                 /\ Len(groups[g]) < max_size
                 /\ is_group_suitable_for_zigzag_constraints(prog, cand, g,
                                                             position_targets, groups[g])
                 /\ is_group_suitable_for_participant(prog, cand, groups[g], used_pairs)}
        sc(g) == calculate_group_score(prog, cand, groups[g], used_pairs, 0, max_size)
    IN IF ok = {} THEN 0
       ELSE CHOOSE g \in ok : \A h \in ok : sc(g) < sc(h) \/ (sc(g) = sc(h) /\ g <= h)

\* min(range(len(groups)), key=len): the first smallest group
smallest_group(groups) == Head(order_by_size(groups, DOMAIN groups))

\* the remainder phase over the participants the target phase left in the
\* pools (position by position, pool order); the fall-back to the smallest
\* group records no pairs
RECURSIVE place_remaining(_, _, _, _, _)
place_remaining(prog, st, rest, position_targets, max_size) ==
    IF rest = <<>> THEN st
    ELSE LET cand == Head(rest)
             g == find_best_group_for_remaining_participant(prog, cand, st.groups,
                      position_targets, st.used_pairs, max_size)
         IN IF g # 0
            THEN place_remaining(prog,
                     [st EXCEPT !.groups[g] = Append(@, cand),
                                !.used_pairs = update_conflicts(cand, Append(st.groups[g], cand), @)],
                     Tail(rest), position_targets, max_size)
            ELSE place_remaining(prog,
                     [st EXCEPT !.groups[smallest_group(st.groups)] = Append(@, cand)],
                     Tail(rest), position_targets, max_size)

\* _assign_by_targets on pools already shuffled
assign_by_targets(prog, shuffled, position_targets, used_pairs, G, min_size, max_size) ==
    LET st0 == [groups |-> Tuple([g \in 1..G |-> <<>>]), pools |-> shuffled,
                used_pairs |-> used_pairs]
        st1 == fill_positions(prog, st0, 1, position_targets, min_size, max_size)
    IN place_remaining(prog, st1,
                       st1.pools[1] \o st1.pools[2] \o st1.pools[3] \o st1.pools[4],
                       position_targets, max_size)

\* `if group_participants:` keeps the groups that have members
non_empty_groups(groups) ==
    LET kept == SortedSeq({g \in DOMAIN groups : groups[g] # <<>>})
    IN Tuple([k \in DOMAIN kept |-> groups[kept[k]]])

\* one round of the session loop of _generate_initial_solution; groups left
\* empty are not turned into Group objects
generate_session(prog, s, shuffled, used_pairs) ==
    LET session == prog.sessions[s]
        G == session.group_num
        group_sizes == compute_group_sizes(Len(prog.participants), G)
        position_targets ==
            compute_position_targets_zigzag(G, group_sizes,
                                            [p \in Positions |-> Len(shuffled[p])])
        st == assign_by_targets(prog, shuffled, position_targets, used_pairs, G,
                                session.min, session.max)
    IN [groups |-> non_empty_groups(st.groups),
        used_pairs |-> st.used_pairs]

\* the outcomes of random.shuffle on the four position pools
Shuffles(prog) ==
    {<<f, d, m, b>> : f \in Perms(Range(position_members(prog, 1))),
                      d \in Perms(Range(position_members(prog, 2))),
                      m \in Perms(Range(position_members(prog, 3))),
                      b \in Perms(Range(position_members(prog, 4)))}

\* _generate_initial_solution for every outcome of the shuffles: the set of
\* (solution so far, used_pairs) after sessions 1..s-1 extended by session s
RECURSIVE generate_from(_, _, _)
generate_from(prog, s, acc) ==
    IF s > Len(prog.sessions) THEN acc
    ELSE generate_from(prog, s + 1,
             {LET r == generate_session(prog, s, sh, a.used_pairs)
              IN [solution |-> Append(a.solution, r.groups), used_pairs |-> r.used_pairs]
              : a \in acc, sh \in Shuffles(prog)})

generate_initial_solution(prog) ==
    {a.solution : a \in generate_from(prog, 1, {[solution |-> <<>>, used_pairs |-> {}]})}

-----------------------------------------------------------------------------
(* Local search of the heuristic assigner.  Scores are keyed by participant *)
(* name.  The variances the source computes in doubles are kept as exact    *)
(* fractions [num, den] and compared by cross-multiplication.               *)

group_names(prog, group) == Tuple([k \in DOMAIN group |-> name_of(prog, group[k])])

RECURSIVE paired_names(_, _)
\* names in the order the pair loops first touch them: groups of one member
\* have no pair
paired_names(prog, groups) ==
    IF groups = <<>> THEN <<>>
    ELSE (IF Len(Head(groups)) >= 2 THEN group_names(prog, Head(groups)) ELSE <<>>)
           \o paired_names(prog, Tail(groups))

\* _calculate_participant_scores (and _calculate_participant_scores_from_list):
\* keys in insertion order, and for each name the number of pairs it is part of
calculate_participant_scores(prog, sol) ==
    LET keys == Dedupe(paired_names(prog, Flatten(sol)))
        in_group(group, nm) ==
            (Len(group) - 1)
              * Cardinality({k \in DOMAIN group : name_of(prog, group[k]) = nm})
        in_session(groups, nm) ==
            SumOver(DOMAIN groups, [g \in DOMAIN groups |-> in_group(groups[g], nm)])
    IN [keys |-> keys,
        score |-> [nm \in Range(keys) |->
                     SumOver(DOMAIN sol, [s \in DOMAIN sol |-> in_session(sol[s], nm)])]]

min_score(scores) ==
    CHOOSE v \in Range(scores.score) : \A w \in Range(scores.score) : v <= w

max_score(scores) ==
    CHOOSE v \in Range(scores.score) : \A w \in Range(scores.score) : v >= w

\* _calculate_score_variance: (n * sum of squares - square of sum) / n^2,
\* and 0 for an empty dict
calculate_score_variance(scores) ==
    LET n == Len(scores.keys)
        vals == [k \in 1..n |-> scores.score[scores.keys[k]]]
        total == SumOver(1..n, vals)
        squares == SumOver(1..n, [k \in 1..n |-> vals[k] * vals[k]])
    IN IF n = 0 THEN [num |-> 0, den |-> 1]
       ELSE [num |-> n * squares - total * total, den |-> n * n]

variance_less(a, b) == a.num * b.den < b.num * a.den

\* number of (session, group, i < j) whose two names are a and b
pair_meetings(prog, sol, a, b) ==
    LET in_group(group) ==
            Cardinality({ij \in (DOMAIN group) \X (DOMAIN group) :
                           /\ ij[1] < ij[2]
                           /\ {name_of(prog, group[ij[1]]), name_of(prog, group[ij[2]])}
                                = {a, b}})
        in_session(groups) ==
            SumOver(DOMAIN groups, [g \in DOMAIN groups |-> in_group(groups[g])])
    IN SumOver(DOMAIN sol, [s \in DOMAIN sol |-> in_session(sol[s])])

RECURSIVE restrict_order(_, _)
restrict_order(order, S) ==
    IF order = <<>> THEN <<>>
    ELSE (IF Head(order) \in S THEN <<Head(order)>> ELSE <<>>)
           \o restrict_order(Tail(order), S)

\* _find_high_duplication_participants: the names of the pairs that met twice
\* or more, as list(set) yields them; set_order is the iteration order the
\* interpreter's string hashing gives
find_high_duplication_participants(prog, sol, set_order) ==
    LET names == {name_of(prog, i) : i \in DOMAIN prog.participants}
        high == {a \in names : \E b \in names : pair_meetings(prog, sol, a, b) >= 2}
    IN restrict_order(set_order, high)

\* _simulate_swap / _execute_swap
execute_swap(sol, s, g1, g2, pos1, pos2) ==
    [sol EXCEPT ![s] = [@ EXCEPT ![g1] = [@ EXCEPT ![pos1] = sol[s][g2][pos2]],
                                 ![g2] = [@ EXCEPT ![pos2] = sol[s][g1][pos1]]]]

\* an evaluation that accepts every exchange
evaluate_swap_fairness_any(prog, sol, s, g1, g2, pos1, pos2) == TRUE

\* _evaluate_swap_fairness
evaluate_swap_fairness(prog, sol, s, g1, g2, pos1, pos2) ==
    LET current_scores == calculate_participant_scores(prog, sol)
        new_scores == calculate_participant_scores(prog,
                          execute_swap(sol, s, g1, g2, pos1, pos2))
    IN \/ variance_less(calculate_score_variance(new_scores),
                        calculate_score_variance(current_scores))
       \/ min_score(new_scores) > min_score(current_scores)

RECURSIVE LexLess(_, _)
\* Python's list comparison on sequences of integers
LexLess(a, b) ==
    IF b = <<>> THEN FALSE
    ELSE IF a = <<>> THEN TRUE
    ELSE IF Head(a) # Head(b) THEN Head(a) < Head(b)
    ELSE LexLess(Tail(a), Tail(b))

\* the element of a set of index tuples a nested loop reaches first
FirstOf(S) == CHOOSE x \in S : \A y \in S : x = y \/ LexLess(x, y)

\* _try_swap_for_fairness: the first member of another group with the
\* target's position whose exchange evaluate_swap_fairness accepts
try_swap_for_fairness(prog, sol, s, target_participant) ==
    LET groups == sol[s]
        slots == {gk \in (DOMAIN groups) \X (1..Len(prog.participants)) :
                    /\ gk[2] \in DOMAIN groups[gk[1]]
                    /\ name_of(prog, groups[gk[1]][gk[2]]) = target_participant}
    IN IF slots = {} THEN [found |-> FALSE, solution |-> sol]
       ELSE LET t == FirstOf(slots)
                accepted ==
                    {ok \in (DOMAIN groups) \X (1..Len(prog.participants)) :
                       /\ ok[1] # t[1]
                       /\ ok[2] \in DOMAIN groups[ok[1]]
                       /\ position_of(prog, groups[ok[1]][ok[2]])
                            = position_of(prog, groups[t[1]][t[2]])
                       /\ evaluate_swap_fairness(prog, sol, s, t[1], ok[1], t[2], ok[2])}
            IN IF accepted = {} THEN [found |-> FALSE, solution |-> sol]
               ELSE LET o == FirstOf(accepted)
                    IN [found |-> TRUE,
                        solution |-> execute_swap(sol, s, t[1], o[1], t[2], o[2])]

RECURSIVE try_improve_participant_fairness(_, _, _, _)
\* _try_improve_participant_fairness: sessions in order from s
try_improve_participant_fairness(prog, sol, s, target_participant) ==
    IF s > Len(sol) THEN [found |-> FALSE, solution |-> sol]
    ELSE LET r == try_swap_for_fairness(prog, sol, s, target_participant)
         IN IF r.found THEN r
            ELSE try_improve_participant_fairness(prog, sol, s + 1, target_participant)

RECURSIVE improve_priority(_, _, _)
improve_priority(prog, sol, priority_participants) ==
    IF priority_participants = <<>> THEN [found |-> FALSE, solution |-> sol]
    ELSE LET r == try_improve_participant_fairness(prog, sol, 1,
                                                   Head(priority_participants))
         IN IF r.found THEN r
            ELSE improve_priority(prog, sol, Tail(priority_participants))

\* _improve_fairness.  min() of an empty dict raises ValueError: no group of
\* any session has two members.  score <= min + (max - min) * 0.2 is taken
\* times five.
improve_fairness(prog, sol, set_order) ==
    LET scores == calculate_participant_scores(prog, sol)
    IN IF scores.keys = <<>>
       THEN [raised |-> TRUE, improved |-> FALSE, solution |-> sol]
       ELSE LET lo == min_score(scores)
                hi == max_score(scores)
                low_score_participants ==
                    restrict_order(scores.keys,
                        {nm \in Range(scores.keys) :
                           5 * scores.score[nm] <= 5 * lo + (hi - lo)})
                r == improve_priority(prog, sol,
                         low_score_participants
                           \o find_high_duplication_participants(prog, sol, set_order))
            IN [raised |-> FALSE, improved |-> r.found, solution |-> r.solution]

\* _evaluate_session: -mean + variance * 0.1 of (group size - 1) taken once
\* per member, as the fraction num / den; inf when nobody is placed
evaluate_session(groups) ==
    LET n == SumOver(DOMAIN groups, [g \in DOMAIN groups |-> Len(groups[g])])
        total == SumOver(DOMAIN groups,
                     [g \in DOMAIN groups |-> Len(groups[g]) * (Len(groups[g]) - 1)])
        squares == SumOver(DOMAIN groups,
                     [g \in DOMAIN groups |->
                        Len(groups[g]) * (Len(groups[g]) - 1) * (Len(groups[g]) - 1)])
    IN IF n = 0 THEN [inf |-> TRUE, num |-> 0, den |-> 1]
       ELSE [inf |-> FALSE,
             num |-> n * squares - total * total - 10 * n * total,
             den |-> 10 * n * n]

session_score_less(a, b) ==
    IF a.inf THEN FALSE
    ELSE IF b.inf THEN TRUE
    ELSE a.num * b.den < b.num * a.den

\* _improve_session with _try_swap_participants: the first pair of members of
\* equal position in two groups whose exchange lowers the session score
improve_session(prog, sol, s) ==
    LET groups == sol[s]
        n == Len(prog.participants)
        current_score == evaluate_session(groups)
        swapped(x) == execute_swap(sol, s, x[1], x[2], x[3], x[4])
        better ==
            {x \in (DOMAIN groups) \X (DOMAIN groups) \X (1..n) \X (1..n) :
               /\ x[1] < x[2]
               /\ x[3] \in DOMAIN groups[x[1]]
               /\ x[4] \in DOMAIN groups[x[2]]
               /\ position_of(prog, groups[x[1]][x[3]])
                    = position_of(prog, groups[x[2]][x[4]])
               /\ session_score_less(evaluate_session(non_empty_groups(swapped(x)[s])),
                                     current_score)}
    IN IF better = {} THEN [improved |-> FALSE, solution |-> sol]
       ELSE [improved |-> TRUE,
             solution |-> [sol EXCEPT ![s] =
                             non_empty_groups(swapped(FirstOf(better))[s])]]

RECURSIVE improve_sessions(_, _, _)
\* `for session_idx in current_solution.keys()`
improve_sessions(prog, r, s) ==
    IF s > Len(r.solution) THEN r
    ELSE LET i == improve_session(prog, r.solution, s)
         IN improve_sessions(prog,
                [improved |-> r.improved \/ i.improved, solution |-> i.solution],
                s + 1)

RECURSIVE local_search_improvement(_, _, _, _)
\* _local_search_improvement with `iterations` rounds left
local_search_improvement(prog, sol, set_order, iterations) ==
    IF iterations = 0 THEN [raised |-> FALSE, solution |-> sol]
    ELSE CHOOSE result \in
            {IF f.raised THEN [raised |-> TRUE, solution |-> sol]
             ELSE CHOOSE after \in
                     {IF r.improved
                      THEN local_search_improvement(prog, r.solution, set_order,
                                                    iterations - 1)
                      ELSE [raised |-> FALSE, solution |-> r.solution] :
                         r \in {improve_sessions(prog,
                                    [improved |-> f.improved, solution |-> f.solution],
                                    1)}} :
                     TRUE :
                f \in {improve_fairness(prog, sol, set_order)}} :
            TRUE

\* GroupAssignerHeuristic(max_iterations).assign_groups(prog): every outcome
\* of the shuffles and of the set iteration order
heuristic_assign_groups(prog, max_iterations) ==
    {local_search_improvement(prog, sol, set_order, max_iterations) :
        sol \in generate_initial_solution(prog),
        set_order \in Perms({name_of(prog, i) : i \in DOMAIN prog.participants})}

-----------------------------------------------------------------------------
(* Hybrid GA assigner                                                       *)
(* (infrastructure_layer/domain_implementations/group_assigner_hybrid_ga.py)*)
(* An individual is a sequence over sessions of sequences of groups of      *)
(* participant indices (1-based here, 0-based in the source).  A roster     *)
(* index identifies a participant, so to_index_solution and                 *)
(* _indices_to_groups keep the nested index lists as they are.              *)

\* the size violations left out of the weighted sum
W_SIZE_unweighted == 0 * 1000000

W_SIZE == 1000000
W_PAIR == 100
W_SPREAD == 1000
W_RANGE == 300
W_LAB == 5
FacultyGuard == 100

RECURSIVE dedupe_groups(_, _, _)
\* the `seen` pass of _repair_session: later occurrences of an index are
\* popped, group by group
dedupe_groups(groups, g, seen) ==
    IF g > Len(groups) THEN groups
    ELSE CHOOSE result \in
            {dedupe_groups([groups EXCEPT ![g] = kept], g + 1, seen \cup Range(kept)) :
                kept \in {Dedupe(restrict_order(groups[g], Range(groups[g]) \ seen))}} :
            TRUE

RECURSIVE place_missing_unsorted(_, _, _, _)
\* each missing index goes to the first group, in index order, below max
place_missing_unsorted(groups, missing, groups_sorted, max_size) ==
    IF missing = <<>> THEN groups
    ELSE LET open == {g \in DOMAIN groups : Len(groups[g]) < max_size}
         IN IF open = {}
            THEN place_missing_unsorted(groups, Tail(missing), groups_sorted, max_size)
            ELSE place_missing_unsorted(
                     [groups EXCEPT ![CHOOSE g \in open : \A j \in open : g <= j] =
                                       Append(@, Head(missing))],
                     Tail(missing), groups_sorted, max_size)

RECURSIVE place_missing(_, _, _, _)
\* each missing index goes to the first group of groups_sorted (sorted once,
\* before anything is added) that is below max, or nowhere
place_missing(groups, missing, groups_sorted, max_size) ==
    IF missing = <<>> THEN groups
    ELSE LET open == {k \in DOMAIN groups_sorted :
                        Len(groups[groups_sorted[k]]) < max_size}
         IN IF open = {} THEN place_missing(groups, Tail(missing), groups_sorted, max_size)
            ELSE LET gi == groups_sorted[CHOOSE k \in open : \A j \in open : k <= j]
                 IN place_missing([groups EXCEPT ![gi] = Append(@, Head(missing))],
                                  Tail(missing), groups_sorted, max_size)

RECURSIVE move_from_bigs(_, _, _, _)
\* one pass of `for bi in bigs: for si in smalls`: each big group gives its
\* last member to the first small group still below min
move_from_bigs(st, bigs, smalls, min_size) ==
    IF bigs = <<>> THEN st
    ELSE LET bi == Head(bigs)
             takers == {k \in DOMAIN smalls : Len(st.groups[smalls[k]]) < min_size}
         IN IF st.groups[bi] = <<>> \/ takers = {}
            THEN move_from_bigs(st, Tail(bigs), smalls, min_size)
            ELSE LET si == smalls[CHOOSE k \in takers : \A j \in takers : k <= j]
                     big == st.groups[bi]
                 IN move_from_bigs(
                        [groups |-> [st.groups EXCEPT
                                       ![bi] = SubSeq(big, 1, Len(big) - 1),
                                       ![si] = Append(@, big[Len(big)])],
                         changed |-> TRUE],
                        Tail(bigs), smalls, min_size)

RECURSIVE adjust_sizes(_, _, _)
\* `while changed`
adjust_sizes(groups, min_size, max_size) ==
    LET bigs == SortedSeq({g \in DOMAIN groups : Len(groups[g]) > max_size})
        smalls == SortedSeq({g \in DOMAIN groups : Len(groups[g]) < min_size})
    IN IF bigs = <<>> /\ smalls = <<>> THEN groups
       ELSE LET r == move_from_bigs([groups |-> groups, changed |-> FALSE],
                                    bigs, smalls, min_size)
            IN IF r.changed THEN adjust_sizes(r.groups, min_size, max_size)
               ELSE r.groups

fac_count(prog, group) == count_position(prog, group, Faculty)

first_index(group, S) == CHOOSE k \in S : \A j \in S : k <= j

RECURSIVE equalize_faculty(_, _, _, _)
\* `while receivers and donors and guard < 100`
equalize_faculty(prog, st, min_size, max_size) ==
    IF st.receivers = <<>> \/ st.donors = <<>> \/ st.guard >= FacultyGuard THEN st.groups
    ELSE LET gi == Head(st.donors)
             gj == Head(st.receivers)
             donor == st.groups[gi]
             receiver == st.groups[gj]
             fac == {k \in DOMAIN donor : position_of(prog, donor[k]) = Faculty}
             non_fac == {k \in DOMAIN receiver :
                           position_of(prog, receiver[k]) # Faculty}
             rest == [st EXCEPT !.donors = Tail(@), !.receivers = Tail(@),
                                !.guard = @ + 1]
         IN IF fac = {} THEN equalize_faculty(prog, rest, min_size, max_size)
            ELSE LET fac_idx == first_index(donor, fac)
                     moved ==
                         IF Len(receiver) < max_size /\ Len(donor) > min_size
                         THEN [st.groups EXCEPT ![gi] = RemoveAt(donor, fac_idx),
                                                ![gj] = Append(receiver, donor[fac_idx])]
                         ELSE LET k == first_index(receiver, non_fac)
                              IN [st.groups EXCEPT
                                    ![gi] = [donor EXCEPT ![fac_idx] = receiver[k]],
                                    ![gj] = [receiver EXCEPT ![k] = donor[fac_idx]]]
                     skip == ~(Len(receiver) < max_size /\ Len(donor) > min_size)
                               /\ non_fac = {}
                 IN IF skip THEN equalize_faculty(prog, rest, min_size, max_size)
                    ELSE equalize_faculty(prog,
                            [groups |-> moved,
                             receivers |->
                                 restrict_order(rest.receivers,
                                                Range(rest.receivers) \ {gj})
                                   \o (IF fac_count(prog, moved[gj]) = 0
                                       THEN <<gj>> ELSE <<>>),
                             donors |->
                                 restrict_order(rest.donors, Range(rest.donors) \ {gi})
                                   \o (IF fac_count(prog, moved[gi]) >= 2
                                       THEN <<gi>> ELSE <<>>),
                             guard |-> st.guard + 1],
                            min_size, max_size)

\* the groups handed back as they came
repair_session_skipped(prog, s, groups) == groups

\* _repair_session
repair_session(prog, s, groups) ==
    LET session == prog.sessions[s]
        unique == dedupe_groups(groups, 1, {})
        seen == UNION {Range(unique[g]) : g \in DOMAIN unique}
        missing == SortedSeq((DOMAIN prog.participants) \ seen)
        filled == place_missing(unique, missing,
                                order_by_size(unique, DOMAIN unique), session.max)
        sized == adjust_sizes(filled, session.min, session.max)
        total_fac == Cardinality({i \in DOMAIN prog.participants :
                                    position_of(prog, i) = Faculty})
    IN IF total_fac >= Len(sized)
       THEN equalize_faculty(prog,
                [groups |-> sized,
                 receivers |-> SortedSeq({g \in DOMAIN sized :
                                            fac_count(prog, sized[g]) = 0}),
                 donors |-> SortedSeq({g \in DOMAIN sized :
                                         fac_count(prog, sized[g]) >= 2}),
                 guard |-> 0],
                session.min, session.max)
       ELSE sized

\* the pairs (unordered, as sets) whose meetings _fitness counts
met_pairs(ind) ==
    UNION {UNION {{{ind[s][g][i], ind[s][g][j]} :
                      i \in DOMAIN ind[s][g], j \in DOMAIN ind[s][g]}
                  : g \in DOMAIN ind[s]} : s \in DOMAIN ind}

together_count(ind, pair) ==
    SumOver(DOMAIN ind,
        [s \in DOMAIN ind |->
           SumOver(DOMAIN ind[s],
               [g \in DOMAIN ind[s] |->
                  Cardinality({ij \in (DOMAIN ind[s][g]) \X (DOMAIN ind[s][g]) :
                                 /\ ij[1] < ij[2]
                                 /\ {ind[s][g][ij[1]], ind[s][g][ij[2]]} = pair})])])

\* mates[pid]: everyone listed with pid in a group of some session
mates(ind, pid) ==
    UNION {UNION {{ind[s][g][j] : j \in {k \in DOMAIN ind[s][g] :
                                     \E i \in DOMAIN ind[s][g] :
                                         i # k /\ ind[s][g][i] = pid}}
                  : g \in DOMAIN ind[s]} : s \in DOMAIN ind}

\* lab_count of one group: occurrences of each laboratory among the members
lab_pen_of(prog, group) ==
    LET labs == UNION {Range(prog.participants[group[k]].lab) : k \in DOMAIN group}
        c(lab) == SumOver(DOMAIN group,
                      [k \in DOMAIN group |->
                         Cardinality({j \in DOMAIN prog.participants[group[k]].lab :
                                        prog.participants[group[k]].lab[j] = lab})])
    IN SumOver(labs, [lab \in labs |-> ((c(lab) - 1) * c(lab)) \div 2])

\* total_penalty of _fitness as whole + num / den: the variance of the
\* partner counts is (n * sum of squares - square of sum) / n^2 and the other
\* terms are integers.  _fitness returns -total_penalty.
total_penalty(prog, ind) ==
    LET size_pen ==
            SumOver(DOMAIN ind,
                [s \in DOMAIN ind |->
                   Cardinality({g \in DOMAIN ind[s] :
                                  ~(prog.sessions[s].min <= Len(ind[s][g])
                                    /\ Len(ind[s][g]) <= prog.sessions[s].max)})])
        pairs == met_pairs(ind)
        pair_pen ==
            SumOver(pairs, [pr \in pairs |->
                              ((together_count(ind, pr) - 1) * together_count(ind, pr))
                                 \div 2])
        ids == UNION {UNION {Range(ind[s][g]) : g \in DOMAIN ind[s]} : s \in DOMAIN ind}
        counts == [pid \in ids |-> Cardinality(mates(ind, pid))]
        n == Cardinality(ids)
        total == SumOver(ids, counts)
        squares == SumOver(ids, [pid \in ids |-> counts[pid] * counts[pid]])
        range_pen ==
            IF ids = {} THEN 0
            ELSE (CHOOSE v \in Range(counts) : \A w \in Range(counts) : v >= w)
                   - (CHOOSE v \in Range(counts) : \A w \in Range(counts) : v <= w)
        lab_pen ==
            SumOver(DOMAIN ind,
                [s \in DOMAIN ind |->
                   SumOver(DOMAIN ind[s],
                       [g \in DOMAIN ind[s] |-> lab_pen_of(prog, ind[s][g])])])
    IN [whole |-> W_SIZE * size_pen + W_PAIR * pair_pen + W_RANGE * range_pen
                    + W_LAB * lab_pen,
        num |-> IF n = 0 THEN 0 ELSE W_SPREAD * (n * squares - total * total),
        den |-> IF n = 0 THEN 1 ELSE n * n]

\* a < b for two penalties; the variance is below den, so a difference of the
\* whole parts of W_SPREAD * den or more decides alone
penalty_less(a, b) ==
    LET d == a.whole - b.whole
        lim == W_SPREAD * Max2(a.den, b.den)
    IN IF d >= lim THEN FALSE
       ELSE IF d <= -lim THEN TRUE
       ELSE d * a.den * b.den + a.num * b.den < b.num * a.den

\* _fitness(a) < _fitness(b)
fitness_less(prog, a, b) == penalty_less(total_penalty(prog, b), total_penalty(prog, a))

RECURSIVE individual_less(_, _, _)
\* Python's comparison of nested lists, depth levels above the integers
individual_less(a, b, depth) ==
    IF depth = 1 THEN LexLess(a, b)
    ELSE IF b = <<>> THEN FALSE
    ELSE IF a = <<>> THEN TRUE
    ELSE IF Head(a) # Head(b) THEN individual_less(Head(a), Head(b), depth - 1)
    ELSE individual_less(Tail(a), Tail(b), depth)

\* the penalties of a population, one _fitness call per individual
penalties(prog, population) ==
    Tuple([k \in DOMAIN population |-> total_penalty(prog, population[k])])

RECURSIVE sorted_from(_, _, _)
\* descending by (fitness, individual); pens are the penalties
sorted_from(population, pens, S) ==
    IF S = {} THEN <<>>
    ELSE LET k == CHOOSE x \in S :
                    \A y \in S :
                       \/ penalty_less(pens[x], pens[y])
                       \/ /\ ~penalty_less(pens[y], pens[x])
                          /\ \/ individual_less(population[y], population[x], 3)
                             \/ (population[x] = population[y] /\ x <= y)
         IN <<population[k]>> \o sorted_from(population, pens, S \ {k})

\* the same sort without reverse=True
sorted_forward(prog, population) ==
    LET scored == sorted_from(population, penalties(prog, population), DOMAIN population)
    IN [k \in 1..Len(scored) |-> scored[Len(scored) + 1 - k]]

\* sorted(((fitness, ind) for ind in population), reverse=True)
sorted_reverse(prog, population) ==
    sorted_from(population, penalties(prog, population), DOMAIN population)

\* max(population, key=_fitness): the first individual of greatest fitness
best_of(prog, population) ==
    LET pens == penalties(prog, population)
    IN population[CHOOSE x \in DOMAIN population :
                    \A y \in DOMAIN population :
                       \/ penalty_less(pens[x], pens[y])
                       \/ (~penalty_less(pens[y], pens[x]) /\ x <= y)]

\* the members of a group that have position p, in group order (by_pos)
by_pos(prog, indices, p) ==
    restrict_order(indices, {i \in Range(indices) : position_of(prog, i) = p})

\* the orders in which k different elements of S can be drawn
Arrangements(S, k) ==
    {f \in [1..k -> S] : \A i, j \in 1..k : f[i] = f[j] => i = j}

RECURSIVE SeqProduct(_)
\* the sequences that take their k-th element from the k-th set
SeqProduct(sets) ==
    IF sets = <<>> THEN {<<>>}
    ELSE {<<x>> \o rest : x \in Head(sets), rest \in SeqProduct(Tail(sets))}

RECURSIVE assemble_as_second(_, _, _, _)
\* a child group with as many members of each position as parent 2 has
assemble_as_second(prog, g1, g2, p) ==
    IF p > 4 THEN {<<>>}
    ELSE {picked \o rest :
            picked \in Arrangements(Range(by_pos(prog, g1, p)) \cup Range(by_pos(prog, g2, p)),
                                    Len(by_pos(prog, g2, p))),
            rest \in assemble_as_second(prog, g1, g2, p + 1)}

RECURSIVE assemble(_, _, _, _)
\* one child group: position by position, as many members as parent 1 has
\* of that position, the first different ones of the shuffled pool of both
\* parents' members of that position.  The pool holds parent 1's members, so
\* the group always reaches target_size and the refill from the whole
\* session is never entered.
assemble(prog, g1, g2, p) ==
    IF p > 4 THEN {<<>>}
    ELSE {picked \o rest :
            picked \in Arrangements(Range(by_pos(prog, g1, p)) \cup Range(by_pos(prog, g2, p)),
                                    Len(by_pos(prog, g1, p))),
            rest \in assemble(prog, g1, g2, p + 1)}

\* _crossover: IndexError when a parent has fewer than group_num groups at
\* some session; otherwise every child the shuffles can give
crossover(prog, p1, p2) ==
    LET short == \E s \in DOMAIN prog.sessions :
                    \/ Len(p1[s]) < prog.sessions[s].group_num
                    \/ Len(p2[s]) < prog.sessions[s].group_num
        session_children(s) ==
            {repair_session(prog, s, c_session) :
                c_session \in SeqProduct(Tuple([g \in 1..prog.sessions[s].group_num |->
                                                  assemble(prog, p1[s][g], p2[s][g], 1)]))}
    IN IF short THEN [raised |-> TRUE, children |-> {}]
       ELSE [raised |-> FALSE,
             children |-> SeqProduct(Tuple([s \in DOMAIN prog.sessions |->
                                              session_children(s)]))]

\* the exchanges of _mutate_indices at one session: g1, g2 = sample of two
\* group indices, a position both have, one member of it from each
session_swaps(prog, groups) ==
    IF Len(groups) < 2 THEN {groups}
    ELSE UNION {
           LET common == {p \in Positions : /\ by_pos(prog, groups[g[1]], p) # <<>>
                                            /\ by_pos(prog, groups[g[2]], p) # <<>>}
           IN IF common = {} THEN {groups}
              ELSE {[groups EXCEPT ![g[1]] = [@ EXCEPT ![x[1]] = groups[g[2]][x[2]]],
                                   ![g[2]] = [@ EXCEPT ![x[2]] = groups[g[1]][x[1]]]]
                    : x \in {y \in (DOMAIN groups[g[1]]) \X (DOMAIN groups[g[2]]) :
                               /\ position_of(prog, groups[g[1]][y[1]])
                                    = position_of(prog, groups[g[2]][y[2]])
                               /\ \A k \in 1..(y[1] - 1) :
                                     groups[g[1]][k] # groups[g[1]][y[1]]
                               /\ \A k \in 1..(y[2] - 1) :
                                     groups[g[2]][k] # groups[g[2]][y[2]]}}
           : g \in {h \in (DOMAIN groups) \X (DOMAIN groups) : h[1] # h[2]}}

\* _mutate_indices: with force every session is exchanged, otherwise each
\* session is exchanged or not as random.random() < mutation_rate falls;
\* every session is repaired
mutate_indices(prog, individual, force) ==
    SeqProduct(Tuple([s \in DOMAIN prog.sessions |->
        {repair_session(prog, s, groups) :
            groups \in session_swaps(prog, individual[s])
                         \cup (IF force THEN {} ELSE {individual[s]})}]))

\* _find_index_in_session: the roster index of the participant with the same
\* id, index 0 (here 1) when there is none
find_index_in_session(prog, participant) ==
    IF participant \in DOMAIN prog.participants THEN participant ELSE 1

\* to_index_solution
to_index_solution(prog, groups_dict) ==
    Tuple([s \in DOMAIN prog.sessions |->
        Tuple([g \in DOMAIN groups_dict[s] |->
            Tuple([k \in DOMAIN groups_dict[s][g] |->
                find_index_in_session(prog, groups_dict[s][g][k])])])])

\* _indices_to_groups: one Group per index list, members looked up by index
indices_to_groups(prog, individual) ==
    Tuple([s \in DOMAIN prog.sessions |->
        Tuple([g \in DOMAIN individual[s] |-> individual[s][g]])])

-----------------------------------------------------------------------------
(* One call of GroupAssignerHybridGA.assign_groups, step by step, and a     *)
(* second call that receives the same program, the same constructor         *)
(* arguments and the same random draws: the two differ only in the wall     *)
(* clock they read, so the second call is the first one up to the           *)
(* generation at which its clock passes time_budget_seconds.  mutation_rate *)
(* is strictly between 0 and 1; hy.log records, for the claims, the least   *)
(* penalty of the population before the loop and after each generation.     *)

MaxHyParticipants == 4
MaxHySamePosition == 2
MaxHySessions == 2
MaxHyLoad == 5
MaxHyGroups == 3
MaxHySize == 2
MaxHyPopulation == 3
MaxHyGenerations == 2
MaxHyIterations == 1

\* rosters by position counts; participants 1 and 2 share a laboratory, 3 and
\* 4 the next one
HyRoster(c) ==
    [i \in 1..(c[1] + c[2] + c[3] + c[4]) |->
        [name |-> i,
         position |-> RosterOfCounts(c)[i].position,
         lab |-> <<(i + 1) \div 2>>]]

\* rosters of Faculty and Bachelor participants, at most MaxHySamePosition of
\* each
HyCounts ==
    {y \in [Positions -> 0..MaxHySamePosition] :
        /\ y[2] = 0 /\ y[3] = 0
        /\ y[1] + y[4] \in 1..MaxHyParticipants}

\* programs whose sessions all carry the same group_num, min and max, with
\* min <= max; the larger rosters come with fewer sessions
HyPrograms ==
    {[participants |-> HyRoster(x[1]),
      sessions |-> [s \in 1..x[2] |-> [group_num |-> x[3], min |-> x[4], max |-> x[5]]]]
     : x \in {y \in HyCounts \X (1..MaxHySessions) \X (1..MaxHyGroups)
                      \X (1..MaxHySize) \X (1..MaxHySize) :
                 /\ y[4] <= y[5]
                 /\ y[1][1] + y[1][4] + y[2] <= MaxHyLoad}}

HyInit ==
    /\ program \in HyPrograms
    /\ solution = <<>>
    /\ evPc = "idle"
    /\ evResult = NoResult
    /\ ap = [pc |-> "idle"]
    /\ hy \in {[pc |-> "seeds",
                num_heuristic_seeds |-> 1,
                generations |-> gn,
                population_size |-> ps,
                heuristic_iterations |-> it,
                population |-> <<>>, best |-> <<>>, elites |-> <<>>,
                new_pop |-> <<>>, generation |-> 0, log |-> <<>>]
               : gn \in 0..MaxHyGenerations, ps \in 1..MaxHyPopulation,
                 it \in 0..MaxHyIterations}
    /\ twin = [pc |-> "running", solution |-> <<>>]
    /\ rp = [pc |-> "idle"]
    /\ cv = [pc |-> "idle"]
    /\ hs = [pc |-> "idle"]
    /\ ga = [pc |-> "idle"]

\* _make_heuristic_seeds: one more seed, or the heuristic's ValueError
HySeed ==
    /\ hy.pc = "seeds"
    /\ \E r \in heuristic_assign_groups(program, hy.heuristic_iterations) :
          IF r.raised
          THEN hy' = [hy EXCEPT !.pc = "raised"]
          ELSE hy' = [hy EXCEPT
                        !.population = Append(@, to_index_solution(program, r.solution)),
                        !.pc = IF Len(hy.population) + 1 >= hy.num_heuristic_seeds
                               THEN "fill" ELSE "seeds"]
    /\ UNCHANGED <<evalVars, ap, twin, otherVars>>

\* `while len(population) < self.population_size`
HyFill ==
    /\ hy.pc = "fill"
    /\ Len(hy.population) < hy.population_size
    /\ \E k \in DOMAIN hy.population :
          \E child \in mutate_indices(program, hy.population[k], TRUE) :
             hy' = [hy EXCEPT !.population = Append(@, child)]
    /\ UNCHANGED <<evalVars, ap, twin, otherVars>>

\* start_time = time.time(); best = max(population, key=fitness)
HyStart ==
    /\ hy.pc = "fill"
    /\ Len(hy.population) >= hy.population_size
    /\ hy' = [hy EXCEPT !.best = best_of(program, hy.population),
                        !.log = <<total_penalty(program, best_of(program, hy.population))>>,
                        !.pc = "generation"]
    /\ UNCHANGED <<evalVars, ap, twin, otherVars>>

\* the round started with an empty new_pop instead of the elites
HySelect_no_elites ==
    /\ hy.pc = "generation"
    /\ hy.generation < hy.generations
    /\ LET scored == sorted_reverse(program, hy.population)
           elites == SubSeq(scored, 1,
                            Min2(Len(scored), Max2(2, hy.population_size \div 4)))
       IN hy' = [hy EXCEPT !.elites = elites, !.new_pop = <<>>, !.pc = "breed"]
    /\ UNCHANGED <<evalVars, ap, twin, otherVars>>

\* the head of one round of the GA loop: scored, elites, new_pop
HySelect ==
    /\ hy.pc = "generation"
    /\ hy.generation < hy.generations
    /\ LET scored == sorted_reverse(program, hy.population)
           elites == SubSeq(scored, 1,
                            Min2(Len(scored), Max2(2, hy.population_size \div 4)))
       IN hy' = [hy EXCEPT !.elites = elites, !.new_pop = elites, !.pc = "breed"]
    /\ UNCHANGED <<evalVars, ap, twin, otherVars>>

\* the parents random.sample / random.choice can give
Parents ==
    IF Len(hy.elites) >= 2
    THEN {<<hy.elites[ij[1]], hy.elites[ij[2]]>> :
             ij \in {x \in (DOMAIN hy.elites) \X (DOMAIN hy.elites) : x[1] # x[2]}}
    ELSE {<<hy.best, hy.population[k]>> : k \in DOMAIN hy.population}

\* the children one pair of parents can have: crossover, then mutation
children_of(prog, p1, p2) ==
    LET c == crossover(prog, p1, p2)
    IN [raised |-> c.raised,
        children |-> UNION {mutate_indices(prog, crossed, FALSE) :
                               crossed \in c.children}]

\* one child; the crossover's IndexError ends the call
HyBreed ==
    /\ hy.pc = "breed"
    /\ Len(hy.new_pop) < hy.population_size
    /\ \E pp \in Parents :
          LET c == children_of(program, pp[1], pp[2])
          IN IF c.raised
             THEN hy' = [hy EXCEPT !.pc = "raised"]
             ELSE \E child \in c.children :
                     hy' = [hy EXCEPT !.new_pop = Append(@, child)]
    /\ UNCHANGED <<evalVars, ap, twin, otherVars>>

\* the tail of one round without the update of best
end_generation_keeps_best(h, pc) ==
    LET cur_best == best_of(program, h.new_pop)
    IN [h EXCEPT !.population = h.new_pop,
                 !.generation = @ + 1,
                 !.log = Append(@, total_penalty(program, cur_best)),
                 !.pc = pc]

\* the tail of one round: population = new_pop and the update of best
end_generation(h, pc) ==
    LET cur_best == best_of(program, h.new_pop)
    IN [h EXCEPT !.population = h.new_pop,
                 !.best = IF fitness_less(program, h.best, cur_best)
                          THEN cur_best ELSE h.best,
                 !.generation = @ + 1,
                 !.log = Append(@, total_penalty(program, cur_best)),
                 !.pc = pc]

\* time.time() - start_time <= time_budget_seconds in both calls
HyEndGeneration ==
    /\ hy.pc = "breed"
    /\ Len(hy.new_pop) >= hy.population_size
    /\ hy' = end_generation(hy, "generation")
    /\ UNCHANGED <<evalVars, ap, twin, otherVars>>

\* the budget is spent in this call (and in the second, if it still runs)
HyTimeBudget ==
    /\ hy.pc = "breed"
    /\ Len(hy.new_pop) >= hy.population_size
    /\ hy' = end_generation(hy, "return")
    /\ UNCHANGED <<evalVars, ap, twin, otherVars>>

\* the budget is spent in the second call only: it breaks and returns its best
HyTwinTimeBudget ==
    /\ hy.pc = "breed"
    /\ Len(hy.new_pop) >= hy.population_size
    /\ twin.pc = "running"
    /\ hy.generation + 1 < hy.generations
    /\ hy' = end_generation(hy, "generation")
    /\ twin' = [pc |-> "returned",
                solution |-> indices_to_groups(program, hy'.best)]
    /\ UNCHANGED <<evalVars, ap, otherVars>>

\* return self._indices_to_groups(best, sessions_list)
HyReturn ==
    /\ \/ hy.pc = "return"
       \/ hy.pc = "generation" /\ hy.generation >= hy.generations
    /\ solution' = indices_to_groups(program, hy.best)
    /\ hy' = [hy EXCEPT !.pc = "done"]
    /\ twin' = IF twin.pc = "running"
               THEN [pc |-> "returned", solution |-> indices_to_groups(program, hy.best)]
               ELSE twin
    /\ UNCHANGED <<program, evPc, evResult, ap, otherVars>>

HyNext ==
    \/ HySeed \/ HyFill \/ HyStart \/ HySelect \/ HyBreed
    \/ HyEndGeneration \/ HyTimeBudget \/ HyTwinTimeBudget \/ HyReturn

HySpec == HyInit /\ [][HyNext]_vars


-----------------------------------------------------------------------------
(* One call of _repair_session, statement by statement: the `seen` pass,   *)
(* the placement of the missing indices (one index per step), the          *)
(* `while changed` loop (one pass per step) and the Faculty equalisation.  *)

MaxRpParticipants == 3
MaxRpGroups == 3
MaxRpLen == 2

\* a roster of Faculty and Bachelor participants, in any order
RpRoster(f) ==
    [i \in DOMAIN f |-> [name |-> i, position |-> PositionType[f[i]], lab |-> <<i>>]]

RpRosters ==
    UNION {{RpRoster(f) : f \in [1..N -> {1, 4}]} : N \in 1..MaxRpParticipants}

\* a list of participant indices as a caller can pass it: any indices of the
\* roster, repeated or not
RpLists(N) == UNION {[1..n -> 1..N] : n \in 0..MaxRpLen}

RpInputs(N) == UNION {[1..G -> RpLists(N)] : G \in 1..MaxRpGroups}

RpInit ==
    /\ \E roster \in RpRosters, mm \in (1..MaxRpParticipants) \X (1..MaxRpParticipants) :
         \E groups \in RpInputs(Len(roster)) :
            /\ program = [participants |-> roster,
                          sessions |-> <<[group_num |-> Len(groups),
                                          min |-> mm[1], max |-> mm[2]]>>]
            /\ rp = [pc |-> "dedupe", input |-> groups, groups |-> groups,
                     unique |-> <<>>, missing |-> <<>>, groups_sorted |-> <<>>,
                     idx |-> 0, placed |-> 0, passes |-> 0]
    /\ solution = <<>>
    /\ evPc = "idle"
    /\ evResult = NoResult
    /\ ap = [pc |-> "idle"]
    /\ hy = [pc |-> "idle"]
    /\ twin = [pc |-> "idle"]
    /\ cv = [pc |-> "idle"]
    /\ hs = [pc |-> "idle"]
    /\ ga = [pc |-> "idle"]

\* place_target with the order of groups_sorted read backwards
place_target_last(groups, groups_sorted, max_size) ==
    LET open == {k \in DOMAIN groups_sorted : Len(groups[groups_sorted[k]]) < max_size}
    IN IF open = {} THEN 0
       ELSE groups_sorted[CHOOSE k \in open : \A j \in open : k >= j]

\* the group `for gi in groups_sorted` stops at for one missing index: the
\* first of groups_sorted below max, 0 when every group is full
place_target(groups, groups_sorted, max_size) ==
    LET open == {k \in DOMAIN groups_sorted : Len(groups[groups_sorted[k]]) < max_size}
    IN IF open = {} THEN 0
       ELSE groups_sorted[CHOOSE k \in open : \A j \in open : k <= j]

\* lines 277-292: duplicates popped, missing collected, groups_sorted computed
RpDedupe ==
    /\ rp.pc = "dedupe"
    /\ \E unique \in {dedupe_groups(rp.groups, 1, {})} :
       LET seen == UNION {Range(unique[g]) : g \in DOMAIN unique}
           missing == SortedSeq((DOMAIN program.participants) \ seen)
       IN rp' = [rp EXCEPT !.groups = unique,
                           !.unique = unique,
                           !.missing = missing,
                           !.groups_sorted = order_by_size(unique, DOMAIN unique),
                           !.pc = IF missing = <<>> THEN "sizes" ELSE "place"]
    /\ UNCHANGED <<evalVars, ap, hy, twin, cv, hs, ga>>

\* lines 293-297: one round of `for idx in missing`
RpPlace ==
    /\ rp.pc = "place"
    /\ LET gi == place_target(rp.groups, rp.groups_sorted, program.sessions[1].max)
       IN rp' = [rp EXCEPT !.groups = IF gi = 0 THEN @
                                       ELSE [@ EXCEPT ![gi] = Append(@, Head(rp.missing))],
                           !.idx = Head(rp.missing),
                           !.placed = gi,
                           !.missing = Tail(@),
                           !.pc = IF Tail(rp.missing) = <<>> THEN "sizes" ELSE "place"]
    /\ UNCHANGED <<evalVars, ap, hy, twin, cv, hs, ga>>

\* lines 300-312: one round of `while changed`; passes counts the rounds
\* modulo MaxRpParticipants + 2
RpAdjust ==
    /\ rp.pc = "sizes"
    /\ LET session == program.sessions[1]
           bigs == SortedSeq({g \in DOMAIN rp.groups : Len(rp.groups[g]) > session.max})
           smalls == SortedSeq({g \in DOMAIN rp.groups : Len(rp.groups[g]) < session.min})
           r == move_from_bigs([groups |-> rp.groups, changed |-> FALSE],
                               bigs, smalls, session.min)
       IN IF bigs = <<>> /\ smalls = <<>>
          THEN rp' = [rp EXCEPT !.pc = "faculty"]
          ELSE rp' = [rp EXCEPT !.groups = r.groups,
                                !.passes = (@ + 1) % (MaxRpParticipants + 2),
                                !.pc = IF r.changed THEN "sizes" ELSE "faculty"]
    /\ UNCHANGED <<evalVars, ap, hy, twin, cv, hs, ga>>

\* lines 314-367: the Faculty equalisation and the return
RpFaculty ==
    /\ rp.pc = "faculty"
    /\ LET session == program.sessions[1]
           sized == rp.groups
           total_fac == Cardinality({i \in DOMAIN program.participants :
                                       position_of(program, i) = Faculty})
       IN rp' = [rp EXCEPT
                   !.groups =
                       IF total_fac >= Len(sized)
                       THEN equalize_faculty(program,
                               [groups |-> sized,
                                receivers |-> SortedSeq({g \in DOMAIN sized :
                                                fac_count(program, sized[g]) = 0}),
                                donors |-> SortedSeq({g \in DOMAIN sized :
                                                fac_count(program, sized[g]) >= 2}),
                                guard |-> 0],
                               session.min, session.max)
                       ELSE sized,
                   !.pc = "done"]
    /\ UNCHANGED <<evalVars, ap, hy, twin, cv, hs, ga>>

RpNext == RpDedupe \/ RpPlace \/ RpAdjust \/ RpFaculty

RepairSpec == RpInit /\ [][RpNext]_vars

MaxRpFairGroups == 2

\* before the call: the caller still holds the session and the groups
RpIdleInit ==
    /\ program = [participants |-> <<>>, sessions |-> <<>>]
    /\ rp = [pc |-> "idle"]
    /\ solution = <<>>
    /\ evPc = "idle"
    /\ evResult = NoResult
    /\ ap = [pc |-> "idle"]
    /\ hy = [pc |-> "idle"]
    /\ twin = [pc |-> "idle"]
    /\ cv = [pc |-> "idle"]
    /\ hs = [pc |-> "idle"]
    /\ ga = [pc |-> "idle"]

\* self._repair_session(session, groups), with at most MaxRpFairGroups groups
RpCall ==
    /\ rp.pc = "idle"
    /\ \E roster \in RpRosters, mm \in (1..MaxRpParticipants) \X (1..MaxRpParticipants) :
         \E groups \in RpInputs(Len(roster)) :
            /\ Len(groups) <= MaxRpFairGroups
            /\ program' = [participants |-> roster,
                           sessions |-> <<[group_num |-> Len(groups),
                                           min |-> mm[1], max |-> mm[2]]>>]
            /\ rp' = [pc |-> "dedupe", input |-> groups, groups |-> groups,
                      unique |-> <<>>, missing |-> <<>>, groups_sorted |-> <<>>,
                      idx |-> 0, placed |-> 0, passes |-> 0]
    /\ UNCHANGED <<solution, evPc, evResult, ap, hy, twin, cv, hs, ga>>

RpFairNext == RpCall \/ RpDedupe \/ RpPlace \/ RpAdjust \/ RpFaculty

\* once called, the interpreter runs every statement that can execute
RepairFairSpec == RpIdleInit /\ [][RpFairNext]_vars /\ WF_vars(RpNext)

\* C19 as stated: a missing index that is placed goes into a group that is,
\* at the moment of the placement, no larger than any group below max.
C19_PlacedInSmallestNow ==
    [][(rp.pc = "place" /\ rp'.placed # 0)
         => \A g \in DOMAIN rp.groups :
               Len(rp.groups[g]) < program.sessions[1].max
                 => Len(rp.groups[rp'.placed]) <= Len(rp.groups[g])]_vars

\* C19 amended: a missing index goes into a group below max that was, when
\* the duplicates had been removed and before any missing index was placed,
\* no larger than any group that is below max now; it is dropped only when
\* no group is below max.
C19_PlacedInSmallestAtStart ==
    [][rp.pc = "place"
         => LET max_size == program.sessions[1].max
                open == {g \in DOMAIN rp.groups : Len(rp.groups[g]) < max_size}
            IN /\ rp'.placed = 0 <=> open = {}
               /\ rp'.placed # 0
                    => /\ rp'.placed \in open
                       /\ \A g \in open :
                             Len(rp.unique[rp'.placed]) <= Len(rp.unique[g])
                       /\ rp'.groups[rp'.placed]
                            = Append(rp.groups[rp'.placed], Head(rp.missing))]_vars

\* a second missing index has gone into a group that is by now larger than
\* another group below max
C19_Witness ==
    /\ rp.placed # 0
    /\ rp.groups[rp.placed][Len(rp.groups[rp.placed])] = rp.idx
    /\ \E g \in DOMAIN rp.groups :
          /\ Len(rp.groups[g]) + 1 < Len(rp.groups[rp.placed])
          /\ Len(rp.groups[g]) < program.sessions[1].max

RpTotalFaculty ==
    Cardinality({i \in DOMAIN program.participants : position_of(program, i) = Faculty})

\* C13: when the session has at least as many Faculty as groups and every
\* group handed to _repair_session is non-empty, every returned group holds
\* a Faculty member.
C13_EveryGroupHasFaculty ==
    (/\ rp.pc = "done"
     /\ RpTotalFaculty >= Len(rp.input)
     /\ \A g \in DOMAIN rp.input : rp.input[g] # <<>>)
        => \A g \in DOMAIN rp.groups : fac_count(program, rp.groups[g]) >= 1

\* C17 (the part every call of assign_groups depends on): a call of
\* _repair_session on a session the converter accepts finishes; its
\* `while changed` loop and its Faculty loop come to an end.
C17_RepairFinishes == (rp.pc = "dedupe") ~> (rp.pc = "done")

-----------------------------------------------------------------------------
(* GetGroupsParamsConverter.convert_json_to_params.  A JSON value is a     *)
(* record tagged t: null (a missing key reads the same), an integer i, a   *)
(* string s, a list l of strings or a list d of dictionaries; params is    *)
(* None or a dictionary.                                                   *)

MaxCvParticipants == 1
MaxCvSessions == 1

Null == [t |-> "null"]
JInt(v) == [t |-> "int", i |-> v]
JStr(v) == [t |-> "str", s |-> v]
JList(v) == [t |-> "list", l |-> v]
JDicts(v) == [t |-> "list", d |-> v]

CvInts == -1..2

CvParticipantDicts ==
    [name : {Null, JInt(7), JStr(""), JStr("a")},
     position : {Null, JStr("Faculty"), JStr("Bachelor"), JStr("Professor")},
     lab : {Null, JStr("x"), JList(<<>>), JList(<<"x">>)}]

CvSessionDicts ==
    [group_num : {Null} \cup {JInt(v) : v \in CvInts},
     min : {Null} \cup {JInt(v) : v \in CvInts},
     max : {Null} \cup {JInt(v) : v \in CvInts}]

CvListsOf(S, n) == UNION {[1..k -> S] : k \in 0..n}

CvParams ==
    {[none |-> TRUE]} \cup
    [none : {FALSE},
     participants : {Null, JStr("x")}
                      \cup {JDicts(l) : l \in CvListsOf(CvParticipantDicts, MaxCvParticipants)},
     sessions : {Null, JStr("x")}
                  \cup {JDicts(l) : l \in CvListsOf(CvSessionDicts, MaxCvSessions)}]

\* ParticipantFactory.create_participant
create_participant(d) ==
    IF d.name = Null \/ d.position = Null \/ d.lab = Null
         \/ d.name.t # "str" \/ d.position.t # "str" \/ d.lab.t # "list"
    THEN [raised |-> TRUE, error |-> "ValueError"]
    ELSE IF d.name.s = ""
    THEN [raised |-> TRUE, error |-> "ParticipantNameEmptyError"]
    ELSE IF d.position.s \notin Range(PositionType)
    THEN [raised |-> TRUE, error |-> "PositionTypeError"]
    ELSE IF d.lab.l = <<>>
    THEN [raised |-> TRUE, error |-> "LaboratoryNameEmptyError"]
    ELSE [raised |-> FALSE,
          participant |-> [name |-> d.name.s, position |-> d.position.s, lab |-> d.lab.l]]

RECURSIVE convert_participants(_, _)
\* lines 28-31
convert_participants(dicts, participants) ==
    IF dicts = <<>> THEN [raised |-> FALSE, participants |-> participants]
    ELSE LET r == create_participant(Head(dicts))
         IN IF r.raised THEN r
            ELSE convert_participants(Tail(dicts), Append(participants, r.participant))

RECURSIVE convert_sessions(_, _)
\* lines 33-42: the three keys must be present and not None; Session.create
\* stores the values it is given
convert_sessions(dicts, sessions) ==
    IF dicts = <<>> THEN [raised |-> FALSE, sessions |-> sessions]
    ELSE LET d == Head(dicts)
         IN IF d.group_num = Null \/ d.min = Null \/ d.max = Null
            THEN [raised |-> TRUE, error |-> "AttributeError"]
            ELSE convert_sessions(Tail(dicts),
                    Append(sessions, [group_num |-> d.group_num.i,
                                      min |-> d.min.i, max |-> d.max.i]))

\* convert_json_to_params; MissingParameterError, AttributeNotFoundError and
\* AttributeTypeError read self.message in __init__ before it is set, so what
\* their `raise` lets out is an AttributeError
convert_json_to_params(params) ==
    IF params.none \/ params.participants = Null \/ params.sessions = Null
         \/ params.participants.t # "list" \/ params.sessions.t # "list"
    THEN [raised |-> TRUE, error |-> "AttributeError"]
    ELSE LET ps == convert_participants(params.participants.d, <<>>)
         IN IF ps.raised THEN ps
            ELSE LET ss == convert_sessions(params.sessions.d, <<>>)
                 IN IF ss.raised THEN ss
                    ELSE [raised |-> FALSE,
                          program |-> [participants |-> ps.participants,
                                       sessions |-> ss.sessions]]

CvInit ==
    /\ cv \in {[pc |-> "call", params |-> x] : x \in CvParams}
    /\ program = [participants |-> <<>>, sessions |-> <<>>]
    /\ solution = <<>>
    /\ evPc = "idle"
    /\ evResult = NoResult
    /\ ap = [pc |-> "idle"]
    /\ hy = [pc |-> "idle"]
    /\ twin = [pc |-> "idle"]
    /\ rp = [pc |-> "idle"]
    /\ hs = [pc |-> "idle"]
    /\ ga = [pc |-> "idle"]

CvConvert ==
    /\ cv.pc = "call"
    /\ LET r == convert_json_to_params(cv.params)
       IN IF r.raised
          THEN /\ cv' = [pc |-> "raised", params |-> cv.params, error |-> r.error]
               /\ UNCHANGED program
          ELSE /\ cv' = [pc |-> "returned", params |-> cv.params]
               /\ program' = r.program
    /\ UNCHANGED <<solution, evPc, evResult, ap, hy, twin, rp, hs, ga>>

CvNext == CvConvert

ConvSpec == CvInit /\ [][CvNext]_vars

\* the sessions of the input, as far as it has a list of them
CvSessionsOf(params) ==
    IF ~params.none /\ params.sessions.t = "list" THEN params.sessions.d ELSE <<>>

\* C16: an input with a session whose group_num is not a positive integer,
\* or whose min is greater than its max, is rejected with an error and
\* yields no Program.
C16_InvalidSessionRejected ==
    (/\ cv.pc \in {"returned", "raised"}
     /\ \E k \in DOMAIN CvSessionsOf(cv.params) :
           LET d == CvSessionsOf(cv.params)[k]
           IN \/ d.group_num.t = "int" /\ d.group_num.i <= 0
              \/ d.min.t = "int" /\ d.max.t = "int" /\ d.min.i > d.max.i)
        => cv.pc = "raised"

-----------------------------------------------------------------------------
(* Properties of one call of GroupAssignerHybridGA.assign_groups.          *)

\* G * min <= N <= G * max in every session
HyFeasible ==
    \A s \in DOMAIN program.sessions :
        LET session == program.sessions[s]
        IN /\ session.group_num * session.min <= Len(program.participants)
           /\ Len(program.participants) <= session.group_num * session.max

\* every group of every session of an individual is within [min, max]
sizes_within(ind) ==
    \A s \in DOMAIN ind : \A g \in DOMAIN ind[s] :
        /\ program.sessions[s].min <= Len(ind[s][g])
        /\ Len(ind[s][g]) <= program.sessions[s].max

\* how often participant i occurs in the groups of one session
occurrences(groups, i) ==
    SumOver(DOMAIN groups,
            [g \in DOMAIN groups |->
                Cardinality({k \in DOMAIN groups[g] : groups[g][k] = i})])

\* C1: when every session is feasible, the returned Solution holds, in every
\* session, every participant in exactly one group.
C1_ReturnedIsPartition ==
    (hy.pc = "done" /\ HyFeasible)
        => \A s \in DOMAIN program.sessions :
              /\ \A i \in DOMAIN program.participants : occurrences(solution[s], i) = 1
              /\ \A g \in DOMAIN solution[s] :
                    Range(solution[s][g]) \subseteq DOMAIN program.participants

\* a call that ran both generations on four participants has returned
C1_Witness ==
    /\ hy.pc = "done" /\ HyFeasible
    /\ hy.generation >= 2
    /\ Len(program.participants) >= 4

\* C2: when every session is feasible, every group of the returned Solution
\* has a size within [min, max] of its session.
C2_ReturnedSizesWithinBounds ==
    (hy.pc = "done" /\ HyFeasible) => sizes_within(solution)

\* a feasible call has returned although its last population held an
\* individual with a group outside [min, max]
C2_Witness ==
    /\ hy.pc = "done" /\ HyFeasible
    /\ \E k \in DOMAIN hy.population : ~sizes_within(hy.population[k])

\* C3: the returned Solution has exactly group_num groups at every session.
C3_ExactlyGroupNumGroups ==
    hy.pc = "done"
        => \A s \in DOMAIN program.sessions :
              Len(solution[s]) = program.sessions[s].group_num

\* C9: the greatest fitness of the population never drops from one
\* generation to the next (hy.log holds the least penalty of the initial
\* population and of the population after each generation).
C9_MaxFitnessMonotone ==
    hy.pc \in {"generation", "breed", "return", "done"}
        => \A k \in 1..(Len(hy.log) - 1) : ~penalty_less(hy.log[k], hy.log[k + 1])

\* a generation has raised the greatest fitness
C9_Witness ==
    /\ hy.pc \in {"generation", "breed", "return", "done"}
    /\ \E k \in 1..(Len(hy.log) - 1) : penalty_less(hy.log[k + 1], hy.log[k])

\* C10: two calls on the same program with the same parameters and the same
\* random draws return the same groups in the same order.
C10_SameSolution ==
    (hy.pc = "done" /\ twin.pc = "returned") => twin.solution = solution

\* C11: the returned Solution is the conversion of an individual at least as
\* fit as every individual of the initial population and of the population
\* after any generation.
C11_BestEverReturned ==
    /\ hy.pc \in {"generation", "breed", "return", "done"}
         => /\ \A k \in DOMAIN hy.population :
                  ~fitness_less(program, hy.best, hy.population[k])
            /\ \A k \in DOMAIN hy.log :
                  ~penalty_less(hy.log[k], total_penalty(program, hy.best))
    /\ hy.pc = "done" => solution = indices_to_groups(program, hy.best)

\* the returned individual is strictly fitter than the whole initial
\* population
C11_Witness ==
    /\ hy.pc = "done"
    /\ penalty_less(total_penalty(program, hy.best), hy.log[1])

\* C12: W_SIZE is the largest weight and the others are ordered
\* W_PAIR >= W_SPREAD >= W_RANGE >= W_LAB.
C12_WeightOrder ==
    hy.pc # "idle"
        => /\ W_SIZE >= W_PAIR /\ W_SIZE >= W_SPREAD
           /\ W_SIZE >= W_RANGE /\ W_SIZE >= W_LAB
           /\ W_PAIR >= W_SPREAD /\ W_SPREAD >= W_RANGE /\ W_RANGE >= W_LAB

HyTotalFaculty ==
    Cardinality({i \in DOMAIN program.participants : position_of(program, i) = Faculty})

C15_InfeasibleRejectedBeforeSeeding ==
    ~HyFeasible
        => /\ hy.pc \in {"seeds", "raised"}
           /\ hy.population = <<>>
           /\ solution = <<>>

\* the seeds (the individuals of the population up to num_heuristic_seeds)
\* are feasible
HySeedsFeasible ==
    \A k \in DOMAIN hy.population :
        k <= hy.num_heuristic_seeds => sizes_within(hy.population[k])

\* C20: with feasible sessions and feasible seeds, every individual of the
\* initial population and every child has all its groups within [min, max].
C20_EveryIndividualFeasible ==
    (HyFeasible /\ HySeedsFeasible
       /\ hy.pc \in {"fill", "generation", "breed", "return", "done"})
        => /\ \A k \in DOMAIN hy.population : sizes_within(hy.population[k])
           /\ \A k \in DOMAIN hy.new_pop : sizes_within(hy.new_pop[k])

-----------------------------------------------------------------------------
(* Scenario S3 on the heuristic assigner: GroupAssignerHeuristic            *)
(* .assign_groups, the seeding of the only session and the rounds of the    *)
(* local search as steps.                                                   *)

MaxHsIterations == 2

\* one Faculty, two Doctoral, two Master and two Bachelor participants with
\* pairwise distinct labs: the Faculty at roster index k, the others in
\* rising or falling order of position
HsRoster(k, rising) ==
    LET others == IF rising THEN <<2, 2, 3, 3, 4, 4>> ELSE <<4, 4, 3, 3, 2, 2>>
    IN [i \in 1..7 |->
          [name |-> i,
           position |-> PositionType[IF i = k THEN Faculty
                                     ELSE IF i < k THEN others[i] ELSE others[i - 1]],
           lab |-> <<i>>]]

HsInit ==
    /\ \E k \in 1..7, rising \in BOOLEAN :
          program = [participants |-> HsRoster(k, rising),
                     sessions |-> <<[group_num |-> 2, min |-> 3, max |-> 4]>>]
    /\ hs \in {[pc |-> "shuffle", max_iterations |-> it, iteration |-> 0,
                shuffled |-> <<>>, solution |-> <<>>, improved |-> FALSE] :
                  it \in 0..MaxHsIterations}
    /\ solution = <<>>
    /\ evPc = "idle"
    /\ evResult = NoResult
    /\ ap = [pc |-> "idle"]
    /\ hy = [pc |-> "idle"]
    /\ twin = [pc |-> "idle"]
    /\ rp = [pc |-> "idle"]
    /\ cv = [pc |-> "idle"]
    /\ ga = [pc |-> "idle"]

\* random.shuffle of the four position pools
HsShuffle ==
    /\ hs.pc = "shuffle"
    /\ \E shuffled \in Shuffles(program) :
          hs' = [hs EXCEPT !.pc = "assign", !.shuffled = shuffled]
    /\ UNCHANGED <<evalVars, ap, hy, twin, rp, cv, ga>>

\* the session loop of _generate_initial_solution, once
HsAssign ==
    /\ hs.pc = "assign"
    /\ \E r \in {generate_session(program, 1, hs.shuffled, {})} :
          hs' = [hs EXCEPT !.pc = "fairness", !.solution = <<r.groups>>]
    /\ UNCHANGED <<evalVars, ap, hy, twin, rp, cv, ga>>

\* the iteration orders of the set of names met twice or more
HsSetOrders ==
    Perms({a \in DOMAIN program.participants :
             \E b \in DOMAIN program.participants :
                pair_meetings(program, hs.solution, a, b) >= 2})

\* `for iteration in range(self.max_iterations)`: _improve_fairness
HsFairness ==
    /\ hs.pc = "fairness"
    /\ hs.iteration < hs.max_iterations
    /\ \E set_order \in HsSetOrders :
          \E f \in {improve_fairness(program, hs.solution, set_order)} :
             IF f.raised THEN hs' = [hs EXCEPT !.pc = "raised"]
             ELSE hs' = [hs EXCEPT !.pc = "sessions", !.solution = f.solution,
                                   !.improved = f.improved]
    /\ UNCHANGED <<evalVars, ap, hy, twin, rp, cv, ga>>

\* _improve_session for every session, then `if not improved: break`
HsSessions ==
    /\ hs.pc = "sessions"
    /\ \E r \in {improve_sessions(program,
                       [improved |-> hs.improved, solution |-> hs.solution], 1)} :
          hs' = [hs EXCEPT !.pc = IF r.improved THEN "fairness" ELSE "return",
                           !.solution = r.solution,
                           !.improved = FALSE,
                           !.iteration = @ + 1]
    /\ UNCHANGED <<evalVars, ap, hy, twin, rp, cv, ga>>

\* return current_solution
HsReturn ==
    /\ \/ hs.pc = "return"
       \/ hs.pc = "fairness" /\ hs.iteration >= hs.max_iterations
    /\ solution' = hs.solution
    /\ hs' = [hs EXCEPT !.pc = "done"]
    /\ UNCHANGED <<program, evPc, evResult, ap, hy, twin, rp, cv, ga>>

HsNext == HsShuffle \/ HsAssign \/ HsFairness \/ HsSessions \/ HsReturn

HsSpec == HsInit /\ [][HsNext]_vars

\* C18: in scenario S3 every returned Solution has two groups, of sizes 4 and
\* 3, and the only Faculty member is in the group of size 4.
C18_S3SizesAndFaculty ==
    hs.pc = "done"
        => /\ Len(solution[1]) = 2
           /\ {Len(solution[1][g]) : g \in DOMAIN solution[1]} = {3, 4}
           /\ \E g \in DOMAIN solution[1] :
                 /\ Len(solution[1][g]) = 4
                 /\ fac_count(program, solution[1][g]) = 1

\* a returned Solution, after a round of the local search, of a shuffle that
\* moved the Doctoral, Master and Bachelor pools and of a roster whose Faculty
\* member is not listed first
C18_Witness ==
    /\ hs.pc = "done"
    /\ hs.iteration >= 1
    /\ position_of(program, 1) # Faculty
    /\ \A p \in 2..4 : hs.shuffled[p] # position_members(program, p)

-----------------------------------------------------------------------------
(* Selection of the hybrid optimizer                                        *)

\* how often the individual v occurs in a population
occurrences_of(population, v) ==
    Cardinality({k \in DOMAIN population : population[k] = v})

\* the individuals of hy.population left over when hy.elites are taken out
HyNonElites ==
    {v \in Range(hy.population) :
        occurrences_of(hy.population, v) > occurrences_of(hy.elites, v)}

\* C21: the max(2, population_size // 4) fittest individuals of a population
\* open the population of the next generation with unchanged contents, and
\* breeding a child leaves them as they are.
C21_ElitesCarriedUnchanged ==
    /\ hy.pc = "breed"
         => /\ Len(hy.elites) = Min2(Len(hy.population),
                                     Max2(2, hy.population_size \div 4))
            /\ \A k \in DOMAIN hy.elites :
                  /\ occurrences_of(hy.elites, hy.elites[k])
                        <= occurrences_of(hy.population, hy.elites[k])
                  /\ \A v \in HyNonElites : ~fitness_less(program, hy.elites[k], v)
            /\ Len(hy.new_pop) >= Len(hy.elites)
            /\ SubSeq(hy.new_pop, 1, Len(hy.elites)) = hy.elites
    /\ (hy.pc \in {"generation", "return", "done"} /\ hy.generation >= 1)
         => /\ Len(hy.population) >= Len(hy.elites)
            /\ SubSeq(hy.population, 1, Len(hy.elites)) = hy.elites

\* a second generation has ended with a child that is none of its elites and
\* with an individual of the population before it left out
C21_Witness ==
    /\ hy.pc = "generation"
    /\ hy.generation >= 2
    /\ Len(hy.population) > Len(hy.elites)
    /\ \E k \in DOMAIN hy.population : hy.population[k] \notin Range(hy.elites)

\* the first index at which v occurs in seq, 0 when it does not
first_at(seq, v) ==
    IF \E k \in DOMAIN seq : seq[k] = v
    THEN CHOOSE k \in DOMAIN seq : seq[k] = v /\ \A j \in 1..(k - 1) : seq[j] # v
    ELSE 0

\* C22: of two individuals of equal fitness the one with the lower population
\* index is ranked first, so an elite is never preceded by a later individual
\* of its own fitness (i and j are the first occurrences of their contents).
C22_TiesByIndex ==
    hy.pc = "breed"
        => \A i, j \in DOMAIN hy.population :
              (/\ i < j
               /\ first_at(hy.population, hy.population[i]) = i
               /\ first_at(hy.population, hy.population[j]) = j
               /\ ~fitness_less(program, hy.population[i], hy.population[j])
               /\ ~fitness_less(program, hy.population[j], hy.population[i])
               /\ first_at(hy.elites, hy.population[j]) # 0)
                 => /\ first_at(hy.elites, hy.population[i]) # 0
                    /\ first_at(hy.elites, hy.population[i])
                          < first_at(hy.elites, hy.population[j])

-----------------------------------------------------------------------------
(* One call of GroupAssignerHeuristic.assign_groups with the seeding taken  *)
(* placement by placement: the shuffle of a session, the target phase (one  *)
(* placement or one move to the next group or position per step), the       *)
(* remainder phase (one participant per step), then the rounds of the local *)
(* search.  hs.last records the latest placement: its phase, the candidate, *)
(* the group as it was before, and the score the candidate was taken with.  *)

MaxSdParticipants == 3
MaxSdSessions == 2
MaxSdIterations == 1

\* the lab lists of a roster of N: the last participant has one or two labs
SdLabs(i, N) == IF i = N THEN {<<1>>, <<1, 2>>} ELSE {<<1>>, <<2>>}

\* rosters of Faculty, Doctoral and Master participants, positions listed in
\* enumeration order
SdRosters(N) ==
    {[i \in 1..N |-> [name |-> i, position |-> PositionType[pos[i]], lab |-> lab[i]]] :
        pos \in {f \in [1..N -> 1..3] : \A i \in 1..(N - 1) : f[i] <= f[i + 1]},
        lab \in {f \in [1..N -> {<<1>>, <<2>>, <<1, 2>>}] : \A i \in 1..N : f[i] \in SdLabs(i, N)}}

\* the feasible sessions of G groups over N participants: min is 1 or the
\* size of the smallest group, max the size of the largest
SdSession(N, G) ==
    {[group_num |-> G, min |-> m, max |-> (N + G - 1) \div G] : m \in {1, N \div G}}

SdSessions(N) ==
    UNION {[1..S -> UNION {SdSession(N, G) : G \in 1..N}] : S \in 1..MaxSdSessions}

SdNoPlacement == [phase |-> "none"]

SdInit ==
    /\ \E N \in 2..MaxSdParticipants :
          \E roster \in SdRosters(N), sessions \in SdSessions(N) :
             program = [participants |-> roster, sessions |-> sessions]
    /\ hs \in {[pc |-> "seed_shuffle", max_iterations |-> it, iteration |-> 0,
                shuffled |-> <<>>, solution |-> <<>>, improved |-> FALSE,
                s |-> 1, groups |-> <<>>, pools |-> <<>>, used_pairs |-> {},
                position_targets |-> <<>>, p |-> 1, order |-> <<>>, need |-> 0,
                rest |-> <<>>, last |-> SdNoPlacement] :
                  it \in 1..MaxSdIterations}
    /\ solution = <<>>
    /\ evPc = "idle"
    /\ evResult = NoResult
    /\ ap = [pc |-> "idle"]
    /\ hy = [pc |-> "idle"]
    /\ twin = [pc |-> "idle"]
    /\ rp = [pc |-> "idle"]
    /\ cv = [pc |-> "idle"]
    /\ ga = [pc |-> "idle"]

\* the head of the session loop of _generate_initial_solution and the
\* shuffles that open _assign_by_targets
SdShuffle ==
    /\ hs.pc = "seed_shuffle"
    /\ \E shuffled \in Shuffles(program) :
          \E G \in {program.sessions[hs.s].group_num} :
             \E targets \in {compute_position_targets_zigzag(G,
                                 compute_group_sizes(Len(program.participants), G),
                                 [p \in Positions |-> Len(shuffled[p])])} :
                \E groups \in {Tuple([g \in 1..G |-> <<>>])} :
                   \E order \in {order_by_size(groups, DOMAIN groups)} :
                      hs' = [hs EXCEPT !.pc = "seed_main", !.shuffled = shuffled,
                                       !.groups = groups, !.pools = shuffled,
                                       !.position_targets = targets, !.p = 1,
                                       !.order = order,
                                       !.need = targets[Head(order)][1],
                                       !.last = SdNoPlacement]
    /\ UNCHANGED <<evalVars, ap, hy, twin, rp, cv, ga>>

\* the candidate the scan of the target phase settles on, 0 for none
SdBest ==
    best_candidate(program, hs.pools[hs.p], hs.groups[Head(hs.order)], hs.p,
                   hs.used_pairs, program.sessions[hs.s].min, program.sessions[hs.s].max)

\* one round of `while need > 0 and pool` that appends best_candidate
SdMainPlace ==
    /\ hs.pc = "seed_main"
    /\ hs.need > 0
    /\ hs.pools[hs.p] # <<>>
    /\ \E k \in {SdBest} :
          /\ k # 0
          /\ \E gi \in {Head(hs.order)}, cand \in {hs.pools[hs.p][k]} :
                hs' = [hs EXCEPT
                         !.groups[gi] = Append(@, cand),
                         !.used_pairs = update_conflicts(cand, Append(hs.groups[gi], cand), @),
                         !.pools[hs.p] = RemoveAt(@, k),
                         !.need = @ - 1,
                         !.last = [phase |-> "main", cand |-> cand, gi |-> gi,
                                   before |-> hs.groups[gi], used_pairs |-> hs.used_pairs,
                                   min_size |-> program.sessions[hs.s].min,
                                   max_size |-> program.sessions[hs.s].max,
                                   score |-> calculate_group_score(program, cand,
                                                hs.groups[gi], hs.used_pairs,
                                                program.sessions[hs.s].min,
                                                program.sessions[hs.s].max)]]
    /\ UNCHANGED <<evalVars, ap, hy, twin, rp, cv, ga>>

\* the end of the `while` of one group: the next group of `order`, the next
\* position with a fresh `order`, or the remainder phase over what the pools
\* still hold
SdMainAdvance ==
    /\ hs.pc = "seed_main"
    /\ hs.need <= 0 \/ hs.pools[hs.p] = <<>> \/ SdBest = 0
    /\ IF Tail(hs.order) # <<>>
       THEN hs' = [hs EXCEPT !.order = Tail(@),
                             !.need = hs.position_targets[Head(Tail(hs.order))][hs.p]]
       ELSE IF hs.p < 4
       THEN \E order \in {order_by_size(hs.groups, DOMAIN hs.groups)} :
               hs' = [hs EXCEPT !.p = @ + 1, !.order = order,
                                !.need = hs.position_targets[Head(order)][hs.p + 1]]
       ELSE hs' = [hs EXCEPT !.pc = "seed_overflow",
                             !.rest = hs.pools[1] \o hs.pools[2] \o hs.pools[3] \o hs.pools[4]]
    /\ UNCHANGED <<evalVars, ap, hy, twin, rp, cv, ga>>

\* the group _find_best_group_for_remaining_participant returns for the next
\* participant left over, 0 for None
SdBestGroup ==
    find_best_group_for_remaining_participant(program, Head(hs.rest), hs.groups,
        hs.position_targets, hs.used_pairs, program.sessions[hs.s].max)

\* one participant of the remainder phase: appended to the group found, with
\* _update_conflicts, or else to the smallest group with nothing recorded
SdRemainder ==
    /\ hs.pc = "seed_overflow"
    /\ hs.rest # <<>>
    /\ \E found \in {SdBestGroup}, cand \in {Head(hs.rest)} :
          \E g \in {IF found # 0 THEN found ELSE smallest_group(hs.groups)} :
             hs' = [hs EXCEPT
                      !.groups[g] = Append(@, cand),
                      !.used_pairs = IF found # 0
                                     THEN update_conflicts(cand, Append(hs.groups[g], cand), @)
                                     ELSE @,
                      !.rest = Tail(@),
                      !.last = [phase |-> IF found # 0 THEN "overflow" ELSE "fallback",
                                cand |-> cand, gi |-> g,
                                before |-> hs.groups[g], used_pairs |-> hs.used_pairs,
                                min_size |-> 0,
                                max_size |-> program.sessions[hs.s].max,
                                score |-> IF found # 0
                                          THEN calculate_group_score(program, cand,
                                                   hs.groups[g], hs.used_pairs, 0,
                                                   program.sessions[hs.s].max)
                                          ELSE 0]]
    /\ UNCHANGED <<evalVars, ap, hy, twin, rp, cv, ga>>

\* solution[session_idx] = Groups.of(group_objects), then the next session or
\* _local_search_improvement
SdSessionEnd ==
    /\ hs.pc = "seed_overflow"
    /\ hs.rest = <<>>
    /\ hs' = [hs EXCEPT !.solution = Append(@, non_empty_groups(hs.groups)),
                        !.s = IF hs.s < Len(program.sessions) THEN @ + 1 ELSE @,
                        !.pc = IF hs.s < Len(program.sessions) THEN "seed_shuffle"
                               ELSE "fairness"]
    /\ UNCHANGED <<evalVars, ap, hy, twin, rp, cv, ga>>

SdNext ==
    \/ SdShuffle \/ SdMainPlace \/ SdMainAdvance \/ SdRemainder \/ SdSessionEnd
    \/ HsFairness \/ HsSessions \/ HsReturn

SeedSpec == SdInit /\ [][SdNext]_vars

\* the seeding of a session by steps ends where generate_session ends
SdAgreesWithGenerateSession ==
    (hs.pc = "seed_overflow" /\ hs.rest = <<>>)
        => \E used \in SUBSET hs.used_pairs :
              LET r == generate_session(program, hs.s, hs.shuffled, used)
              IN r.groups = non_empty_groups(hs.groups) /\ r.used_pairs = hs.used_pairs

-----------------------------------------------------------------------------
(* Claims about the seeding of the heuristic assigner (checked under         *)
(* SeedSpec)                                                                 *)

\* the labs of a participant, as a set
labs_of(i) == Range(program.participants[i].lab)

\* the members of the group a candidate joined that it had met before
SdUsedMembers ==
    {k \in DOMAIN hs.last.before : {hs.last.cand, hs.last.before[k]} \in hs.last.used_pairs}

C25_UsedPairsComplete ==
    (hs.pc = "seed_overflow" /\ hs.rest = <<>>)
        => \A a, b \in DOMAIN program.participants :
              (/\ a # b
               /\ \/ \E g \in DOMAIN hs.groups : {a, b} \subseteq Range(hs.groups[g])
                  \/ \E s \in DOMAIN hs.solution :
                        \E g \in DOMAIN hs.solution[s] : {a, b} \subseteq Range(hs.solution[s][g]))
                 => {a, b} \in hs.used_pairs

\* C26: the lab test the score and the filter apply to a candidate and a
\* member holds exactly when their lab lists have a name in common, and it
\* gives the same answer with the two participants exchanged.
C26_LabTestIsIntersection ==
    hs.last.phase = "main"
        => \A k \in DOMAIN hs.last.before :
              /\ lab_eq(program, hs.last.cand, hs.last.before[k])
                    <=> labs_of(hs.last.cand) \cap labs_of(hs.last.before[k]) # {}
              /\ lab_eq(program, hs.last.cand, hs.last.before[k])
                    <=> lab_eq(program, hs.last.before[k], hs.last.cand)

-----------------------------------------------------------------------------
(* Crossover of the hybrid optimizer (checked under HySpec)                  *)

\* the pairs of parents of the round whose groups _crossover can index
HyCrossable ==
    {pp \in Parents :
        \A s \in DOMAIN program.sessions :
           /\ Len(pp[1][s]) >= program.sessions[s].group_num
           /\ Len(pp[2][s]) >= program.sessions[s].group_num}

\* C27 as stated: a child group is assembled to the average of the sizes of
\* the two parents' groups of its index, clamped to [min, max] (sizes doubled
\* to stay in the integers).
C27_TargetIsClampedAverage ==
    hy.pc = "breed"
        => \A pp \in HyCrossable : \A s \in DOMAIN program.sessions :
              \A g \in 1..program.sessions[s].group_num :
                 \A assembled \in assemble(program, pp[1][s][g], pp[2][s][g], 1) :
                    2 * Len(assembled)
                       = Max2(2 * program.sessions[s].min,
                              Min2(2 * program.sessions[s].max,
                                   Len(pp[1][s][g]) + Len(pp[2][s][g])))

\* C27, amended: a child group is assembled to the size of parent 1's group of
\* its index, with as many members of each position as that group has; min,
\* max and parent 2's size play no part.
C27_TargetIsFirstParent ==
    hy.pc = "breed"
        => \A pp \in HyCrossable : \A s \in DOMAIN program.sessions :
              \A g \in 1..program.sessions[s].group_num :
                 \A assembled \in assemble(program, pp[1][s][g], pp[2][s][g], 1) :
                    /\ Len(assembled) = Len(pp[1][s][g])
                    /\ \A p \in Positions :
                          count_position(program, assembled, p)
                             = count_position(program, pp[1][s][g], p)

\* a round that bred a child and has parents whose groups of one index differ
\* in size
C27_Witness ==
    /\ hy.pc = "breed"
    /\ Len(hy.new_pop) > Len(hy.elites)
    /\ \E pp \in HyCrossable : \E s \in DOMAIN program.sessions :
          \E g \in 1..program.sessions[s].group_num :
             Len(pp[1][s][g]) # Len(pp[2][s][g])

-----------------------------------------------------------------------------
(* Claims about the local search of the heuristic assigner (checked under    *)
(* SeedSpec): what the next round would do to hs.solution.                   *)

\* the exchanges of two members of equal position of two groups of one
\* session that turn old into new
SdExchanges(old, new) ==
    {x \in (DOMAIN old) \X (1..MaxSdParticipants) \X (1..MaxSdParticipants)
             \X (1..MaxSdParticipants) \X (1..MaxSdParticipants) :
        /\ x[2] \in DOMAIN old[x[1]]
        /\ x[3] \in DOMAIN old[x[1]]
        /\ x[2] # x[3]
        /\ x[4] \in DOMAIN old[x[1]][x[2]]
        /\ x[5] \in DOMAIN old[x[1]][x[3]]
        /\ position_of(program, old[x[1]][x[2]][x[4]])
             = position_of(program, old[x[1]][x[3]][x[5]])
        /\ new = execute_swap(old, x[1], x[2], x[3], x[4], x[5])}

\* the solutions a fairness pass can leave when it reports an improvement
SdFairnessSwaps ==
    IF hs.pc = "fairness" /\ hs.iteration < hs.max_iterations
    THEN {f.solution : f \in {r \in {improve_fairness(program, hs.solution, set_order) :
                                        set_order \in HsSetOrders} :
                                ~r.raised /\ r.improved}}
    ELSE {}

\* the solution the session pass leaves, when it changes anything
SdSessionSwaps ==
    IF hs.pc = "sessions"
    THEN {r.solution : r \in {q \in {improve_sessions(program,
                                        [improved |-> hs.improved, solution |-> hs.solution], 1)} :
                                q.solution # hs.solution}}
    ELSE {}

\* C28 as stated: every swap of the local search exchanges two members of
\* equal position of two groups of one session and strictly lowers that
\* session's objective -mean + 0.1 * variance.
C28_SwapsLowerSessionObjective ==
    \A new \in SdFairnessSwaps \cup SdSessionSwaps :
       \E x \in SdExchanges(hs.solution, new) :
          session_score_less(evaluate_session(new[x[1]]),
                             evaluate_session(hs.solution[x[1]]))

\* C28, amended: every swap of the local search comes from the fairness pass;
\* it exchanges two members of equal position of two groups of one session,
\* it lowers the variance of the per-name partner totals or raises their
\* minimum, and it leaves the session objective as it was.  The session pass
\* never applies a swap.
C28_SwapsAreFairnessSwaps ==
    /\ SdSessionSwaps = {}
    /\ \A new \in SdFairnessSwaps :
          /\ \E x \in SdExchanges(hs.solution, new) :
                evaluate_session(new[x[1]]) = evaluate_session(hs.solution[x[1]])
          /\ \/ variance_less(
                   calculate_score_variance(calculate_participant_scores(program, new)),
                   calculate_score_variance(calculate_participant_scores(program, hs.solution)))
             \/ min_score(calculate_participant_scores(program, new))
                  > min_score(calculate_participant_scores(program, hs.solution))

\* the fairness pass has exchanged two participants
C28_Witness ==
    /\ hs.pc = "sessions"
    /\ hs.improved
    /\ hs.solution # <<>>

\* C29: on a program whose sessions are all feasible, assign_groups with
\* max_iterations >= 1 raises nothing and returns an entry for every session.
C29_CompletesOnFeasiblePrograms ==
    /\ hs.pc # "raised"
    /\ hs.pc = "done" => Len(solution) = Len(program.sessions)

-----------------------------------------------------------------------------
(* Distinct partners of the reports (checked under EvalSpec)                 *)

\* C30: calculate_distinct_partners has exactly one entry per participant of
\* the Solution, and the entry of a participant is the number of other
\* participants it shares a group with in some session, also when two
\* participants carry the same display name.
C30_OneEntryPerParticipant ==
    evPc = "done"
        => /\ Cardinality(DOMAIN evResult.distinct_partners)
                = Cardinality(all_participants(solution))
           /\ \A p \in all_participants(solution) :
                 evResult.distinct_partners[name_of(program, p)]
                    = Cardinality({q \in all_participants(solution) \ {p} :
                                     \E s \in DOMAIN solution : \E g \in DOMAIN solution[s] :
                                        {p, q} \subseteq Range(solution[s][g])})

=============================================================================
